---- MODULE Spec2Model ----
(***************************************************************************)
(* Match-file discovery and retrieval of the Smite 2 RallyHere SDK:        *)
(* the existence gate, the endpoint listings, the type/session filter and   *)
(* the downloaders of src/files_api.py (with the gate of                    *)
(* src/smite2_rh_sdk.py and of src/files_api_sdk_extension.py), the         *)
(* download_match_logs facade of src/fetch_match_logs.py and the            *)
(* friendly-category retrieval S2_get_match_files_by_type of                *)
(* src/files_api_sdk_extension.py.                                          *)
(*                                                                          *)
(* A file name is a sequence of tokens (a prefix such as "CombatLog_", a    *)
(* session id, an extension); a token stands for a run of characters, so    *)
(* substring containment and the anchored patterns are computed on it.      *)
(***************************************************************************)
EXTENDS Integers, Sequences, FiniteSets, TLC

VARIABLES
    op,               \* the top-level call and its arguments
    match,            \* backend: "exists" or "missing"
    listing,          \* backend: endpoint -> the names it lists for the match
    pc,               \* position of the call
    ep_idx,           \* index of the endpoint loop
    all_files,        \* descriptors accumulated by the listing loop
    dl_idx,           \* index of the sequential download loop
    downloaded_files, \* the paths collected so far / returned
    ret_files,        \* the descriptors returned by a listing call
    ret_gate,         \* the value returned by a gate call
    raised,           \* the exception the call ended with, or "none"
    net,              \* the gate, listing and download requests of a retrieval call, in order
    files,            \* download_match_files: the descriptors passed in
    maxc,             \* download_match_files: max_concurrent_downloads
    st,               \* download_match_files: per-descriptor task state
    off,              \* _download_file: chunks written so far, per task
    results,          \* download_single_file's return value, per task
    disk,             \* the output directory: path -> file
    progress_callback, \* download_match_files: whether a progress callback is passed
    total_size,       \* _download_file: the content-length read, per task
    progress,         \* the calls the progress callback has received, per task
    file_types,       \* download_match_logs: the file types asked for
    fallback_all,     \* download_match_logs: the fallback_all argument
    all_downloaded,   \* download_match_logs: the paths collected so far / returned
    logs_pc,          \* position of download_match_logs
    ft_idx,           \* index of the loop over the requested types / categories
    file_types_list,  \* S2_get_match_files_by_type: the validated categories
    api_types_needed, \* S2_get_match_files_by_type: the api types still to list
    ext_all_files,    \* S2_get_match_files_by_type: all_files, api type -> descriptors
    ext_downloaded_files, \* S2_get_match_files_by_type: downloaded_files, name -> path
    cls_name,         \* identify_file_type: the filename classified
    cls_table,        \* identify_file_type: the pattern table, in iteration order
    cls_type,         \* identify_file_type: the value returned
    cls_pc,           \* position of the classification
    token_arg,        \* the token argument of the top-level call, or "None"
    provider_calls,   \* calls of _get_env_access_token so far
    frames,           \* the token each (nested) call holds and its first request in net
    limit,            \* match fetch: the limit argument
    region_id,        \* match fetch: the region_id argument, or "None"
    all_matches,      \* match fetch: the matches collected so far
    matches_processed, \* match fetch: the matches counted so far
    cursor,           \* match fetch: the cursor of the last page, or "None"
    filtered_matches, \* S2_get_filtered_match_files: the matches that passed the filters
    fm_idx,           \* S2_get_filtered_match_files: index of the loop over filtered_matches
    result,           \* S2_get_filtered_match_files: match id -> downloaded files
    m_pc,             \* position of the match fetch
    df_path,          \* _download_file called directly: output_path
    df_body,          \* the chunks the backend streams for the url
    df_call,          \* number of the running call
    df_pc,            \* position of the running call
    df_off,           \* chunks written by the running call
    df_error,         \* the exception raised inside the try block, or NoError
    df_returns,       \* how each call ended: the path returned or the exception raised
    stuck,            \* download_match_files: the task whose transfer hangs, or 0
    log_session_id,   \* download_combat_log / download_chat_log: where log_session_id comes from
    min_duration,     \* match fetch: the min_duration argument, <<>> for None
    max_duration,     \* match fetch: the max_duration argument, <<>> for None
    ret_matches       \* match fetch: the list returned

progressVars == <<progress_callback, total_size, progress>>

logsVars == <<file_types, fallback_all, all_downloaded, logs_pc>>

extVars == <<file_types_list, api_types_needed, ext_all_files, ext_downloaded_files>>

classifyVars == <<cls_name, cls_table, cls_type, cls_pc>>

\* the variables of the operations modelled after S2_get_match_files_by_type
tokenVars == <<token_arg, provider_calls, frames>>

matchVars == <<limit, region_id, all_matches, matches_processed, cursor,
               filtered_matches, fm_idx, result, m_pc>>

dfVars == <<df_path, df_body, df_call, df_pc, df_off, df_error, df_returns>>

fetchVars == <<min_duration, max_duration, ret_matches>>

restVars == <<classifyVars, tokenVars, matchVars, dfVars, stuck, log_session_id,
              fetchVars>>

vars == <<op, match, listing, pc, ep_idx, all_files, dl_idx, downloaded_files,
          ret_files, ret_gate, raised, net, files, maxc, st, off, results, disk,
          progressVars, logsVars, ft_idx, extVars, restVars>>

-----------------------------------------------------------------------------
(* Bounds of the model *)

\* files the backend lists for the match, over both endpoints
MaxListed == 3
\* descriptors passed to one download_match_files call
MaxBatch == 3
\* largest max_concurrent_downloads tried
MaxConc == 2
\* chunks of the longest body
MaxChunks == 2
\* tokens of the longest filename classified
MaxNameLen == 3

-----------------------------------------------------------------------------
(* FileTypeConstants *)

COMBAT_LOG == "COMBAT_LOG"
CHAT_LOG == "CHAT_LOG"
CONSOLE_LOG == "CONSOLE_LOG"
GAME_SESSION_SUMMARY == "GAME_SESSION_SUMMARY"
MATCH_SUMMARY == "MATCH_SUMMARY"
SERVER_METADATA == "SERVER_METADATA"

ENDPOINT_FILE == "file"
ENDPOINT_DEVELOPER_FILE == "developer-file"

Endpoints == {ENDPOINT_FILE, ENDPOINT_DEVELOPER_FILE}

\* the pattern table, in the order of the dict: type, anchored prefix, extension
FILE_TYPE_PATTERNS ==
    << [type |-> COMBAT_LOG, prefix |-> "combatlog_", ext |-> ".log"],
       [type |-> CHAT_LOG, prefix |-> "chatlog_", ext |-> ".log"],
       [type |-> CONSOLE_LOG, prefix |-> "consolelog_", ext |-> ".log"],
       [type |-> GAME_SESSION_SUMMARY, prefix |-> "gamesessionsummary_", ext |-> ".json"],
       [type |-> MATCH_SUMMARY, prefix |-> "matchsummary_", ext |-> ".json"],
       [type |-> SERVER_METADATA, prefix |-> "servermetadata_", ext |-> ".json"] >>

\* re.IGNORECASE: a token folded to lower case
Lower(tok) ==
    CASE tok = "CombatLog_" -> "combatlog_"
      [] tok = "ChatLog_" -> "chatlog_"
      [] tok = "ConsoleLog_" -> "consolelog_"
      [] tok = "GameSessionSummary_" -> "gamesessionsummary_"
      [] tok = "MatchSummary_" -> "matchsummary_"
      [] tok = "ServerMetadata_" -> "servermetadata_"
      [] tok = "Diagnostics_" -> "diagnostics_"
      [] tok = ".LOG" -> ".log"
      [] OTHER -> tok

\* pattern.search(filename): the prefix anywhere in the name
PatternSearches(p, filename) ==
    /\ Len(filename) >= 2
    /\ \E k \in 1..(Len(filename) - 1) : Lower(filename[k]) = p.prefix
    /\ Lower(filename[Len(filename)]) = p.ext

\* pattern.match(filename): anchored at the start, "$" at the end
PatternMatches(p, filename) ==
    /\ Len(filename) >= 2
    /\ Lower(filename[1]) = p.prefix
    /\ Lower(filename[Len(filename)]) = p.ext

\* identify_file_type: the first pattern of the table that matches, or None
IdentifyFileType(filename) ==
    IF filename = <<>> THEN "None"
    ELSE LET hits == {i \in 1..Len(FILE_TYPE_PATTERNS) :
                         PatternMatches(FILE_TYPE_PATTERNS[i], filename)}
         IN IF hits = {} THEN "None"
            ELSE FILE_TYPE_PATTERNS[CHOOSE i \in hits : \A j \in hits : i <= j].type

\* get_endpoints_for_file_type
GetEndpointsForFileType(file_type) ==
    IF file_type = CHAT_LOG
    THEN <<ENDPOINT_DEVELOPER_FILE>>
    ELSE <<ENDPOINT_FILE, ENDPOINT_DEVELOPER_FILE>>

-----------------------------------------------------------------------------
(* The backend *)

CL1 == <<"CombatLog_", "S1", ".log">>
CL2 == <<"CombatLog_", "S2", ".log">>
CH1 == <<"ChatLog_", "S1", ".log">>
DG1 == <<"Diagnostics_", "S1", ".json">>
NoName == <<>>

\* the names an endpoint may list (a record without "name" reads as "")
FileNames == {CL1, CL2, CH1, DG1, NoName}

SeqsUpTo(S, n) == UNION {[1..k -> S] : k \in 0..n}

\* the two listings of a match, MaxListed names in all
Listings ==
    {l \in [Endpoints -> SeqsUpTo(FileNames, MaxListed)] :
        Len(l[ENDPOINT_FILE]) + Len(l[ENDPOINT_DEVELOPER_FILE]) <= MaxListed}

NoListing == [e \in Endpoints |-> <<>>]

\* what GET match/v1/match/{id} may answer: the match's state or a server fault
GateStatuses == IF match = "exists" THEN {200, 500} ELSE {404, 500}

-----------------------------------------------------------------------------
(* The existence gate *)

\* rh_fetch_match_by_id: 404 raises FileNotFoundError before raise_for_status
RhFetchMatchById(status) ==
    IF status = 404 THEN "FileNotFoundError"
    ELSE IF status >= 400 THEN "HTTPError"
    ELSE "ok"

\* check_match_exists: only an HTTPError is caught, and only its 404 becomes False
CheckMatchExists(status) ==
    LET r == RhFetchMatchById(status)
    IN IF r = "ok" THEN "True"
       ELSE IF r = "HTTPError"
            THEN IF status = 404 THEN "False" ELSE "HTTPError"
            ELSE r

\* rh_check_match_exists of the SDK extension: response.status_code == 200
RhCheckMatchExists(status) == IF status = 200 THEN "True" ELSE "False"

-----------------------------------------------------------------------------
(* Listing and filtering *)

\* file_info["api_type"] = endpoint, without the tag
TagFilesUntagged(names, endpoint) ==
    [i \in 1..Len(names) |-> [name |-> names[i], api_type |-> ENDPOINT_FILE]]

\* for file_info in files: file_info["api_type"] = endpoint
TagFiles(names, endpoint) ==
    [i \in 1..Len(names) |-> [name |-> names[i], api_type |-> endpoint]]

\* a session id looked for right after the prefix of the name only
ContainsAfterPrefix(name, sub) ==
    Len(name) >= 1 + Len(sub) /\ SubSeq(name, 2, 1 + Len(sub)) = sub

\* "session_id in name"
Contains(name, sub) ==
    \E i \in 0..(Len(name) - Len(sub)) : SubSeq(name, i + 1, i + Len(sub)) = sub

OfType(fs, file_type) ==
    SelectSeq(fs, LAMBDA f : IdentifyFileType(f.name) = file_type)

OfSession(fs, session_id) ==
    SelectSeq(fs, LAMBDA f : Contains(f.name, session_id))

\* a filter that applies type and session as a plain conjunction
TypeSessionFilterStrict(fs, file_type, session_id) ==
    IF session_id # <<>>
    THEN OfSession(OfType(fs, file_type), session_id)
    ELSE OfType(fs, file_type)

\* download_match_file_by_type, per endpoint: the files of the type, narrowed
\* to the session only when that leaves at least one
TypeSessionFilter(fs, file_type, session_id) ==
    LET type_files == OfType(fs, file_type)
    IN IF session_id # <<>> /\ type_files # <<>>
       THEN LET filtered_files == OfSession(type_files, session_id)
            IN IF filtered_files # <<>> THEN filtered_files ELSE type_files
       ELSE type_files

\* the descriptors that have a name ("if file_name:", "if not filename: continue")
Named(fs) == SelectSeq(fs, LAMBDA f : f.name # <<>>)

\* filename_pattern.format(match_id=..., filename=...), or the bare filename
OutputFilename(pattern, filename) ==
    IF pattern = "none" THEN filename ELSE <<"M1_">> \o filename

\* "if not filename: continue": the next descriptor, from i on, that has a name
RECURSIVE NextNamed(_, _)
NextNamed(fs, i) ==
    IF i > Len(fs) THEN i
    ELSE IF fs[i].name # <<>> THEN i
    ELSE NextNamed(fs, i + 1)

-----------------------------------------------------------------------------
(* The retrieval calls *)

NoSession == <<>>

MkOp(name, ep, file_type, session_id) ==
    [name |-> name, ep |-> ep, file_type |-> file_type, session_id |-> session_id,
     pattern |-> "none"]

Ops ==
    {MkOp(n, ENDPOINT_FILE, "None", NoSession) :
        n \in {"check_match_exists", "rh_check_match_exists",
               "list_all_match_files", "download_all_match_files"}}
    \cup {MkOp("list_match_files", e, "None", NoSession) : e \in Endpoints}
    \cup {MkOp("download_match_file_by_type", ENDPOINT_FILE, t, s) :
            t \in {COMBAT_LOG, CHAT_LOG}, s \in {NoSession, <<"S1">>}}

\* the endpoints the call's listing loop goes through
Eps ==
    CASE op.name \in {"list_match_files", "filter_match_files_by_session",
                       "download_combat_log", "download_chat_log"} -> <<op.ep>>
      [] op.name = "download_match_file_by_type" -> GetEndpointsForFileType(op.file_type)
      [] OTHER -> <<ENDPOINT_FILE, ENDPOINT_DEVELOPER_FILE>>

\* list_all_match_files without the try/except around an endpoint
ListAllCatchesNothing(stage) == FALSE

\* list_all_match_files: the gate is outside the try, each endpoint request inside
ListAllCatches(stage) == stage = "list"

\* download_match_file_by_type: list_match_files is called inside try/except Exception
ByTypeCatches(stage) == TRUE

\* download_all_match_files: list_match_files is called inside try/except Exception
DownloadAllCatches(stage) == TRUE

Caught(stage) ==
    CASE op.name = "list_all_match_files" -> ListAllCatches(stage)
      [] op.name = "download_match_file_by_type" -> ByTypeCatches(stage)
      [] op.name = "download_all_match_files" -> DownloadAllCatches(stage)
      [] OTHER -> FALSE

Cur == [pc |-> pc, ep_idx |-> ep_idx, all_files |-> all_files, dl_idx |-> dl_idx,
        raised |-> raised, ret_files |-> ret_files]

Set(s) ==
    /\ pc' = s.pc
    /\ ep_idx' = s.ep_idx
    /\ all_files' = s.all_files
    /\ dl_idx' = s.dl_idx
    /\ raised' = s.raised
    /\ ret_files' = s.ret_files

Raise(s, exc) == [s EXCEPT !.pc = "done", !.raised = exc]

\* the download loop starts at the first descriptor that has a name
StartDownloads(s) ==
    LET j == NextNamed(s.all_files, 1)
    IN [s EXCEPT !.dl_idx = j,
                 !.pc = IF j > Len(s.all_files) THEN "done" ELSE "download"]

\* download_match_file_by_type: "if not all_files: raise FileNotFoundException"
ByTypeAfterListing(s) ==
    IF s.all_files = <<>> THEN Raise(s, "FileNotFoundException")
    ELSE StartDownloads(s)

\* what follows the listing loop
AfterListing(s) ==
    CASE op.name = "list_all_match_files" ->
            [s EXCEPT !.pc = "done", !.ret_files = s.all_files]
      [] op.name = "download_match_file_by_type" -> ByTypeAfterListing(s)
      [] OTHER -> StartDownloads(s)

\* a listing loop that looks the match up again before every endpoint
NextEndpointRegate(s, acc) ==
    IF s.ep_idx < Len(Eps)
    THEN [s EXCEPT !.all_files = acc, !.ep_idx = @ + 1, !.pc = "gate"]
    ELSE AfterListing([s EXCEPT !.all_files = acc])

\* the end of one iteration of the listing loop, acc being all_files after it
NextEndpoint(s, acc) ==
    IF s.ep_idx < Len(Eps)
    THEN [s EXCEPT !.all_files = acc, !.ep_idx = @ + 1,
                   !.pc = IF op.name = "list_all_match_files" THEN "list" ELSE "gate"]
    ELSE AfterListing([s EXCEPT !.all_files = acc])

\* an exception raised by the gate or by the listing request of one endpoint
ListingRaised(s, exc, stage) ==
    IF Caught(stage) THEN NextEndpoint(s, s.all_files) ELSE Raise(s, exc)

Request(kind, ep, name, status) ==
    [kind |-> kind, ep |-> ep, name |-> name, status |-> status]

\* the token the n-th call of _get_env_access_token returns
Issued(n) == [by |-> "provider", n |-> n]

\* the token the caller passes in
Supplied == [by |-> "caller", n |-> 0]

BatchIdle ==
    /\ files = <<>>
    /\ maxc = 0
    /\ st = <<>>
    /\ off = <<>>
    /\ results = <<>>
    /\ disk = <<>>
    /\ progress_callback = FALSE
    /\ total_size = <<>>
    /\ progress = <<>>

\* download_match_logs is not running
LogsIdle ==
    /\ file_types = <<>>
    /\ fallback_all = FALSE
    /\ all_downloaded = <<>>
    /\ logs_pc = "idle"

\* S2_get_match_files_by_type is not running
ExtIdle ==
    /\ file_types_list = <<>>
    /\ api_types_needed = {}
    /\ ext_all_files = <<>>
    /\ ext_downloaded_files = <<>>

\* identify_file_type is not being called
ClassifyIdle ==
    /\ cls_name = <<>>
    /\ cls_table = <<>>
    /\ cls_type = "None"
    /\ cls_pc = "idle"

\* no token has been asked for
TokenIdle ==
    /\ token_arg = "None"
    /\ provider_calls = 0
    /\ frames = <<>>

\* no match fetch is running
MatchIdle ==
    /\ limit = 0
    /\ region_id = "None"
    /\ all_matches = <<>>
    /\ matches_processed = 0
    /\ cursor = "None"
    /\ filtered_matches = <<>>
    /\ fm_idx = 1
    /\ result = <<>>
    /\ m_pc = "idle"

NoError == [type |-> "none", msg |-> <<>>]

\* _download_file is not called directly
DfIdle ==
    /\ df_path = <<>>
    /\ df_body = <<>>
    /\ df_call = 0
    /\ df_pc = "idle"
    /\ df_off = 0
    /\ df_error = NoError
    /\ df_returns = <<>>

\* no match fetch with duration criteria is running
FetchIdle ==
    /\ min_duration = <<>>
    /\ max_duration = <<>>
    /\ ret_matches = <<>>

RestIdle ==
    /\ ClassifyIdle
    /\ TokenIdle
    /\ MatchIdle
    /\ DfIdle
    /\ stuck = 0
    /\ log_session_id = "unset"
    /\ FetchIdle

Init ==
    /\ op \in Ops
    /\ match \in {"exists", "missing"}
    /\ listing \in (IF match = "exists" THEN Listings ELSE {NoListing})
    /\ pc = "gate"
    /\ ep_idx = 1
    /\ all_files = <<>>
    /\ dl_idx = 1
    /\ downloaded_files = <<>>
    /\ ret_files = <<>>
    /\ ret_gate = "unset"
    /\ raised = "none"
    /\ net = <<>>
    /\ BatchIdle
    /\ LogsIdle
    /\ ft_idx = 1
    /\ ExtIdle
    /\ RestIdle

\* check_match_exists / rh_check_match_exists called on their own
GateCall ==
    /\ pc = "gate"
    /\ op.name \in {"check_match_exists", "rh_check_match_exists"}
    /\ \E status \in GateStatuses :
         LET r == IF op.name = "check_match_exists"
                  THEN CheckMatchExists(status)
                  ELSE RhCheckMatchExists(status)
         IN /\ net' = Append(net, Request("gate", "match", <<>>, status))
            /\ IF r \in {"True", "False"}
               THEN /\ ret_gate' = r
                    /\ raised' = raised
               ELSE /\ ret_gate' = ret_gate
                    /\ raised' = r
            /\ pc' = "done"
    /\ UNCHANGED <<op, match, listing, ep_idx, all_files, dl_idx, downloaded_files,
                   ret_files, files, maxc, st, off, results, disk,
                   progressVars, logsVars, ft_idx, extVars, restVars>>

\* "if not self.check_match_exists(match_id, token): raise MatchNotFoundException"
\* in list_match_files and list_all_match_files
Gate ==
    /\ pc = "gate"
    /\ op.name \notin {"check_match_exists", "rh_check_match_exists"}
    /\ \E status \in GateStatuses :
         LET r == CheckMatchExists(status)
         IN /\ net' = Append(net, Request("gate", "match", <<>>, status))
            /\ Set(IF r = "True" THEN [Cur EXCEPT !.pc = "list"]
                   ELSE IF r = "False"
                        THEN ListingRaised(Cur, "MatchNotFoundException", "gate")
                        ELSE ListingRaised(Cur, r, "gate"))
    /\ UNCHANGED <<op, match, listing, downloaded_files, ret_gate,
                   files, maxc, st, off, results, disk,
                   progressVars, logsVars, ft_idx, extVars, restVars>>

\* GET file/v1/{endpoint}/match/{match_id} and what the caller does with the answer
List ==
    /\ pc = "list"
    /\ \E ok \in BOOLEAN :
         LET ep == Eps[ep_idx]
             fs == TagFiles(listing[ep], ep)
         IN /\ net' = Append(net, Request("list", ep, <<>>, IF ok THEN 200 ELSE 500))
            /\ Set(IF ~ok THEN ListingRaised(Cur, "HTTPError", "list")
                   ELSE CASE op.name = "list_match_files" ->
                                [Cur EXCEPT !.pc = "done", !.ret_files = fs]
                          [] op.name = "filter_match_files_by_session" ->
                                [Cur EXCEPT !.pc = "done",
                                            !.ret_files = OfSession(fs, op.session_id)]
                          [] op.name \in {"download_combat_log", "download_chat_log"} ->
                                [Cur EXCEPT !.pc = "select", !.all_files = fs]
                          [] op.name = "download_match_file_by_type" ->
                                NextEndpoint(Cur, all_files \o
                                    TypeSessionFilter(fs, op.file_type, op.session_id))
                          [] OTHER -> NextEndpoint(Cur, all_files \o fs))
    /\ UNCHANGED <<op, match, listing, downloaded_files, ret_gate,
                   files, maxc, st, off, results, disk,
                   progressVars, logsVars, ft_idx, extVars, restVars>>

\* one iteration of the download loop of download_match_file_by_type and of
\* download_all_match_files: a failure is printed and the loop goes on
Download ==
    /\ pc = "download"
    /\ \E ok \in BOOLEAN :
         LET f == all_files[dl_idx]
             j == NextNamed(all_files, dl_idx + 1)
         IN /\ net' = Append(net, Request("download", f.api_type, f.name,
                                          IF ok THEN 200 ELSE 500))
            /\ downloaded_files' =
                 IF ok THEN Append(downloaded_files, OutputFilename(op.pattern, f.name))
                 ELSE downloaded_files
            /\ dl_idx' = j
            /\ pc' = IF j > Len(all_files) THEN "done" ELSE "download"
    /\ UNCHANGED <<op, match, listing, ep_idx, all_files, ret_files, ret_gate, raised,
                   files, maxc, st, off, results, disk,
                   progressVars, logsVars, ft_idx, extVars, restVars>>

Next == GateCall \/ Gate \/ List \/ Download

Spec == Init /\ [][Next]_vars

-----------------------------------------------------------------------------
(* download_match_files and _download_file *)

\* the descriptors a caller may pass: a name listed on both endpoints, another
\* name, and a record without a name
BatchDescriptors ==
    {[name |-> CL1, api_type |-> ENDPOINT_FILE],
     [name |-> CL1, api_type |-> ENDPOINT_DEVELOPER_FILE],
     [name |-> CH1, api_type |-> ENDPOINT_DEVELOPER_FILE],
     [name |-> NoName, api_type |-> ENDPOINT_FILE]}

\* a batch names each descriptor once, as the listings it is built from do
Batches ==
    {q \in SeqsUpTo(BatchDescriptors, MaxBatch) :
        \A a, b \in 1..Len(q) : a # b => q[a] # q[b]}

FilenamePatterns == {"none", "{match_id}_{filename}"}

BatchOps ==
    {[name |-> "download_match_files", ep |-> ENDPOINT_FILE, file_type |-> "None",
      session_id |-> NoSession, pattern |-> p] : p \in FilenamePatterns}

\* the body the backend streams for a descriptor, in chunks of 8192 bytes
BodyLen(f) == IF f.name[1] = "CombatLog_" THEN MaxChunks ELSE 1

Chunk(f, k) == <<f.api_type, k>>

Hole == <<"hole", 0>>

\* f.write(chunk) at the writer's own file offset
WriteAt(data, pos, c) ==
    IF pos <= Len(data) THEN [data EXCEPT ![pos] = c]
    ELSE data \o [k \in 1..(pos - Len(data) - 1) |-> Hole] \o <<c>>

Paths == {OutputFilename(p, f.name) : p \in FilenamePatterns, f \in BatchDescriptors}

NoFile == [exists |-> FALSE, by |-> 0, data |-> <<>>]

\* os.path.join(output_dir, output_filename)
OutputPath(i) == OutputFilename(op.pattern, files[i].name)

Tasks == 1..Len(files)

\* the transfers that are open: _download_file entered and not yet left
InFlight == {i \in Tasks : st[i] \in {"started", "streaming"}}

Finished == \A i \in Tasks : st[i] \notin {"queued", "started", "streaming"}

\* a sequential branch taken for max_concurrent_downloads = 1 only
SequentialOnlyOne(n) == n = 1

\* "if max_concurrent_downloads <= 1": the for loop
Sequential(n) == n <= 1

\* a pool of one worker whatever is asked for
MaxWorkersSingle(n) == 1

\* a pool one worker too wide
MaxWorkersOffByOne(n) == n + 1

\* ThreadPoolExecutor(max_workers=max_concurrent_downloads)
MaxWorkers(n) == n

\* download_single_file without its try/except
SingleFileCatchesNothing == FALSE

\* download_single_file: "except Exception as e: print(...); return None"
SingleFileCatches == TRUE

\* The for loop calls download_single_file for file i+1 after the call for file i
\* has returned.  The pool's workers take the work items off its queue in
\* submission order, and a worker runs one item at a time.
CanStart(i) ==
    /\ \A j \in 1..(i - 1) : st[j] # "queued"
    /\ IF Sequential(maxc)
       THEN InFlight = {}
       ELSE Cardinality(InFlight) < MaxWorkers(maxc)

\* the content-length header of the response: absent (read as 0), the length of
\* the body, or the length of an encoded body that iter_content decodes
ContentLengths(f) == {0, BodyLen(f), BodyLen(f) + 1}

\* one call of progress_callback(basename, bytes_so_far, total_bytes)
Report(downloaded, total) == [bytes_so_far |-> downloaded, total_bytes |-> total]

\* a chunk reported whenever a callback is given
ReportsChunkAlways(total) == progress_callback

\* "if progress_callback and total_size > 0"
ReportsChunk(total) == progress_callback /\ total > 0

\* a final report that passes the content-length as the total
FinalReportOfHeader(downloaded, total) == Report(downloaded, total)

\* "progress_callback(os.path.basename(output_path), downloaded, downloaded)"
FinalReport(downloaded, total) == Report(downloaded, downloaded)

\* the results taken from the last task to the first
RECURSIVE CollectReversed(_, _)
CollectReversed(res, i) ==
    IF i > Len(res) THEN <<>> ELSE CollectReversed(res, i + 1) \o res[i]

\* [r for r in results if r], in the order of the input
RECURSIVE Collect(_, _)
Collect(res, i) ==
    IF i > Len(res) THEN <<>> ELSE res[i] \o Collect(res, i + 1)

\* a DownloadError leaving _download_file for task i
TransferFailed(i) ==
    IF SingleFileCatches
    THEN /\ st' = [st EXCEPT ![i] = "failed"]
         /\ UNCHANGED <<pc, raised>>
    ELSE /\ st' = [st EXCEPT ![i] = "raised"]
         /\ IF Sequential(maxc)
            THEN pc' = "done" /\ raised' = "DownloadError"
            ELSE UNCHANGED <<pc, raised>>

InitBatch ==
    /\ op \in BatchOps
    /\ match = "exists"
    /\ listing = NoListing
    /\ pc = "call"
    /\ ep_idx = 1
    /\ all_files = <<>>
    /\ dl_idx = 1
    /\ downloaded_files = <<>>
    /\ ret_files = <<>>
    /\ ret_gate = "unset"
    /\ raised = "none"
    /\ net = <<>>
    /\ files \in Batches
    /\ maxc \in (-1)..MaxConc
    /\ st = [i \in 1..Len(files) |-> "queued"]
    /\ off = [i \in 1..Len(files) |-> 0]
    /\ results = [i \in 1..Len(files) |-> <<>>]
    /\ disk = [p \in Paths |-> NoFile]
    /\ progress_callback = FALSE
    /\ total_size = [i \in 1..Len(files) |-> 0]
    /\ progress = [i \in 1..Len(files) |-> <<>>]
    /\ LogsIdle
    /\ ft_idx = 1
    /\ ExtIdle
    /\ RestIdle

\* download_match_files up to the choice of the mode; ThreadPoolExecutor raises
\* ValueError for max_workers <= 0
Enter ==
    /\ pc = "call"
    /\ IF Sequential(maxc) \/ MaxWorkers(maxc) > 0
       THEN pc' = "batch" /\ raised' = raised
       ELSE pc' = "done" /\ raised' = "ValueError"
    /\ UNCHANGED <<op, match, listing, ep_idx, all_files, dl_idx, downloaded_files,
                   ret_files, ret_gate, net, files, maxc, st, off, results, disk,
                   progressVars, logsVars, ft_idx, extVars, restVars>>

\* download_single_file: "if not filename: return None"
Skip(i) ==
    /\ pc = "batch"
    /\ st[i] = "queued"
    /\ CanStart(i)
    /\ files[i].name = <<>>
    /\ st' = [st EXCEPT ![i] = "skipped"]
    /\ UNCHANGED <<op, match, listing, pc, ep_idx, all_files, dl_idx, downloaded_files,
                   ret_files, ret_gate, raised, net, files, maxc, off, results, disk,
                   progressVars, logsVars, ft_idx, extVars, restVars>>

\* download_single_file builds the path and the url and calls _download_file,
\* which issues the request
Begin(i) ==
    /\ pc = "batch"
    /\ st[i] = "queued"
    /\ CanStart(i)
    /\ files[i].name # <<>>
    /\ st' = [st EXCEPT ![i] = "started"]
    /\ UNCHANGED <<op, match, listing, pc, ep_idx, all_files, dl_idx, downloaded_files,
                   ret_files, ret_gate, raised, net, files, maxc, off, results, disk,
                   progressVars, logsVars, ft_idx, extVars, restVars>>

\* _download_file fails before the file is opened: os.makedirs fails, the request
\* fails or is answered with an error (raise_for_status), or open() fails
RequestFail(i) ==
    /\ pc = "batch"
    /\ st[i] = "started"
    /\ TransferFailed(i)
    /\ UNCHANGED <<op, match, listing, ep_idx, all_files, dl_idx, downloaded_files,
                   ret_files, ret_gate, net, files, maxc, off, results, disk,
                   progressVars, logsVars, ft_idx, extVars, restVars>>

\* _download_file: the request is answered 200, total_size is read from the
\* content-length header (it is used for the callback only, and kept 0 without
\* one) and open(output_path, 'wb') creates or truncates the file
Open(i) ==
    /\ pc = "batch"
    /\ st[i] = "started"
    /\ st' = [st EXCEPT ![i] = "streaming"]
    /\ off' = [off EXCEPT ![i] = 0]
    /\ \E cl \in (IF progress_callback THEN ContentLengths(files[i]) ELSE {0}) :
         total_size' = [total_size EXCEPT ![i] = cl]
    /\ disk' = [disk EXCEPT ![OutputPath(i)] = [exists |-> TRUE, by |-> i, data |-> <<>>]]
    /\ UNCHANGED <<op, match, listing, pc, ep_idx, all_files, dl_idx, downloaded_files,
                   ret_files, ret_gate, raised, net, files, maxc, results,
                   progress_callback, progress, logsVars, ft_idx, extVars, restVars>>

\* one turn of "for chunk in response.iter_content(...)": f.write(chunk),
\* downloaded += len(chunk), and the progress report
WriteChunk(i) ==
    /\ pc = "batch"
    /\ st[i] = "streaming"
    /\ off[i] < BodyLen(files[i])
    /\ disk' = [disk EXCEPT ![OutputPath(i)].data =
                    WriteAt(@, off[i] + 1, Chunk(files[i], off[i] + 1))]
    /\ off' = [off EXCEPT ![i] = @ + 1]
    /\ progress' =
         IF ReportsChunk(total_size[i])
         THEN [progress EXCEPT ![i] = Append(@, Report(off[i] + 1, total_size[i]))]
         ELSE progress
    /\ UNCHANGED <<op, match, listing, pc, ep_idx, all_files, dl_idx, downloaded_files,
                   ret_files, ret_gate, raised, net, files, maxc, st, results,
                   progress_callback, total_size, logsVars, ft_idx, extVars, restVars>>

\* the stream or the write fails before the body is complete: the with block
\* closes the file, nothing removes it, and DownloadError is raised
StreamFail(i) ==
    /\ pc = "batch"
    /\ st[i] = "streaming"
    /\ off[i] < BodyLen(files[i])
    /\ TransferFailed(i)
    /\ UNCHANGED <<op, match, listing, ep_idx, all_files, dl_idx, downloaded_files,
                   ret_files, ret_gate, net, files, maxc, off, results, disk,
                   progressVars, logsVars, ft_idx, extVars, restVars>>

\* the body is complete: the final progress report is made and _download_file
\* returns output_path; the for loop
\* appends it at once, the pool keeps it as the task's result
Finish(i) ==
    /\ pc = "batch"
    /\ st[i] = "streaming"
    /\ off[i] = BodyLen(files[i])
    /\ st' = [st EXCEPT ![i] = "ok"]
    /\ results' = [results EXCEPT ![i] = <<OutputPath(i)>>]
    /\ downloaded_files' =
         IF Sequential(maxc) THEN Append(downloaded_files, OutputPath(i))
         ELSE downloaded_files
    /\ progress' =
         IF progress_callback
         THEN [progress EXCEPT ![i] = Append(@, FinalReport(off[i], total_size[i]))]
         ELSE progress
    /\ UNCHANGED <<op, match, listing, pc, ep_idx, all_files, dl_idx,
                   ret_files, ret_gate, raised, net, files, maxc, off, disk,
                   progress_callback, total_size, logsVars, ft_idx, extVars, restVars>>

\* the for loop is over: return downloaded_files
SeqReturn ==
    /\ pc = "batch"
    /\ Sequential(maxc)
    /\ Finished
    /\ pc' = "done"
    /\ UNCHANGED <<op, match, listing, ep_idx, all_files, dl_idx, downloaded_files,
                   ret_files, ret_gate, raised, net, files, maxc, st, off, results, disk,
                   progressVars, logsVars, ft_idx, extVars, restVars>>

\* results = list(executor.map(...)) re-raises a task's exception;
\* downloaded_files = [r for r in results if r]
PoolCollect ==
    /\ pc = "batch"
    /\ ~Sequential(maxc)
    /\ Finished
    /\ pc' = "done"
    /\ IF \E i \in Tasks : st[i] = "raised"
       THEN raised' = "DownloadError" /\ downloaded_files' = downloaded_files
       ELSE raised' = raised /\ downloaded_files' = Collect(results, 1)
    /\ UNCHANGED <<op, match, listing, ep_idx, all_files, dl_idx,
                   ret_files, ret_gate, net, files, maxc, st, off, results, disk,
                   progressVars, logsVars, ft_idx, extVars, restVars>>

NextBatch ==
    \/ Enter
    \/ \E i \in Tasks : Skip(i)
    \/ \E i \in Tasks : Begin(i)
    \/ \E i \in Tasks : RequestFail(i)
    \/ \E i \in Tasks : Open(i)
    \/ \E i \in Tasks : WriteChunk(i)
    \/ \E i \in Tasks : StreamFail(i)
    \/ \E i \in Tasks : Finish(i)
    \/ SeqReturn
    \/ PoolCollect

SpecBatch == InitBatch /\ [][NextBatch]_vars

-----------------------------------------------------------------------------
(* download_match_files called with a progress callback *)

\* descriptors passed to a call that reports progress
MaxProgressBatch == 2

ProgressBatches == {q \in Batches : Len(q) <= MaxProgressBatch}

InitProgress ==
    /\ op \in BatchOps
    /\ match = "exists"
    /\ listing = NoListing
    /\ pc = "call"
    /\ ep_idx = 1
    /\ all_files = <<>>
    /\ dl_idx = 1
    /\ downloaded_files = <<>>
    /\ ret_files = <<>>
    /\ ret_gate = "unset"
    /\ raised = "none"
    /\ net = <<>>
    /\ files \in ProgressBatches
    /\ maxc \in 1..MaxConc
    /\ st = [i \in 1..Len(files) |-> "queued"]
    /\ off = [i \in 1..Len(files) |-> 0]
    /\ results = [i \in 1..Len(files) |-> <<>>]
    /\ disk = [p \in Paths |-> NoFile]
    /\ progress_callback \in BOOLEAN
    /\ total_size = [i \in 1..Len(files) |-> 0]
    /\ progress = [i \in 1..Len(files) |-> <<>>]
    /\ LogsIdle
    /\ ft_idx = 1
    /\ ExtIdle
    /\ RestIdle

SpecProgress == InitProgress /\ [][NextBatch]_vars

-----------------------------------------------------------------------------
(* download_match_logs of fetch_match_logs.py *)

\* files the backend lists for the match the facade is called on
MaxLogsListed == 2

\* the two listings of a match, n names in all
ListingsUpTo(n) ==
    UNION {{[e \in Endpoints |-> IF e = ENDPOINT_FILE THEN a ELSE b] :
               a \in [1..i -> FileNames], b \in [1..j -> FileNames]} :
           <<i, j>> \in {p \in (0..n) \X (0..n) : p[1] + p[2] <= n}}

LogsListings == ListingsUpTo(MaxLogsListed)

\* the file_types lists the facade is called with
LogsFileTypes ==
    {<<>>, <<SERVER_METADATA>>, <<COMBAT_LOG>>, <<CHAT_LOG, COMBAT_LOG>>}

LogsPattern == "{match_id}_{filename}"

\* files_api.download_match_file_by_type(match_id, file_type, output_dir, token,
\* filename_pattern="{match_id}_{filename}")
LogsByType(file_type) ==
    [name |-> "download_match_file_by_type", ep |-> ENDPOINT_FILE,
     file_type |-> file_type, session_id |-> NoSession, pattern |-> LogsPattern]

\* files_api.download_all_match_files(match_id, output_dir, token,
\* filename_pattern="{match_id}_{filename}")
LogsAll ==
    [name |-> "download_all_match_files", ep |-> ENDPOINT_FILE,
     file_type |-> "None", session_id |-> NoSession, pattern |-> LogsPattern]

LogsOp ==
    [name |-> "download_match_logs", ep |-> ENDPOINT_FILE,
     file_type |-> "None", session_id |-> NoSession, pattern |-> LogsPattern]

\* a fallback that is never taken
FallbackSkipped(acc) == FALSE

\* "if not all_downloaded and fallback_all"
FallbackTaken(acc) == acc = <<>> /\ fallback_all

\* the facade calls into the files API: the callee starts from its first line
StartCall(o) ==
    /\ op' = o
    /\ pc' = "gate"
    /\ ep_idx' = 1
    /\ all_files' = <<>>
    /\ dl_idx' = 1
    /\ downloaded_files' = <<>>
    /\ raised' = "none"

\* the facade from the head of "for file_type in file_types", acc being
\* all_downloaded: the next type, or the fallback, or "return all_downloaded"
LogsStep(idx, acc) ==
    /\ all_downloaded' = acc
    /\ IF idx <= Len(file_types)
       THEN /\ StartCall(LogsByType(file_types[idx]))
            /\ ft_idx' = idx
            /\ logs_pc' = "types"
       ELSE IF FallbackTaken(acc)
            THEN /\ StartCall(LogsAll)
                 /\ ft_idx' = idx
                 /\ logs_pc' = "fallback"
            ELSE /\ logs_pc' = "returned"
                 /\ ft_idx' = idx
                 /\ pc' = "idle"
                 /\ UNCHANGED <<op, ep_idx, all_files, dl_idx, downloaded_files, raised>>

\* what the facade keeps of a call into the files API: its paths, or nothing
\* when it raised ("except FileNotFoundException", "except Exception")
Kept == IF raised = "none" THEN downloaded_files ELSE <<>>

InitLogs ==
    /\ op = LogsOp
    /\ match \in {"exists", "missing"}
    /\ listing \in (IF match = "exists" THEN LogsListings ELSE {NoListing})
    /\ pc = "idle"
    /\ ep_idx = 1
    /\ all_files = <<>>
    /\ dl_idx = 1
    /\ downloaded_files = <<>>
    /\ ret_files = <<>>
    /\ ret_gate = "unset"
    /\ raised = "none"
    /\ net = <<>>
    /\ BatchIdle
    /\ file_types \in LogsFileTypes
    /\ fallback_all \in BOOLEAN
    /\ all_downloaded = <<>>
    /\ logs_pc = "call"
    /\ ft_idx = 1
    /\ ExtIdle
    /\ RestIdle

\* os.makedirs, all_downloaded = [], the token, and the head of the loop
LogsEnter ==
    /\ logs_pc = "call"
    /\ LogsStep(1, <<>>)
    /\ UNCHANGED <<match, listing, ret_files, ret_gate, net, files, maxc, st, off,
                   results, disk, progressVars, file_types, fallback_all,
                   extVars, restVars>>

\* download_match_file_by_type has returned or raised: extend all_downloaded,
\* next type
LogsTypeDone ==
    /\ logs_pc = "types"
    /\ pc = "done"
    /\ LogsStep(ft_idx + 1, all_downloaded \o Kept)
    /\ UNCHANGED <<match, listing, ret_files, ret_gate, net, files, maxc, st, off,
                   results, disk, progressVars, file_types, fallback_all,
                   extVars, restVars>>

\* download_all_match_files has returned or raised: extend all_downloaded and
\* return it
LogsFallbackDone ==
    /\ logs_pc = "fallback"
    /\ pc = "done"
    /\ all_downloaded' = all_downloaded \o Kept
    /\ logs_pc' = "returned"
    /\ pc' = "idle"
    /\ UNCHANGED <<op, match, listing, ep_idx, all_files, dl_idx, downloaded_files,
                   ret_files, ret_gate, raised, net, files, maxc, st, off,
                   results, disk, progressVars, file_types, fallback_all, ft_idx,
                   extVars, restVars>>

NextLogs ==
    \/ LogsEnter
    \/ Gate
    \/ List
    \/ Download
    \/ LogsTypeDone
    \/ LogsFallbackDone

SpecLogs == InitLogs /\ [][NextLogs]_vars

-----------------------------------------------------------------------------
(* S2_get_match_files_by_type of files_api_sdk_extension.py, next to *)
(* download_match_file_by_type                                        *)

\* files the backend lists for the match of a by-type retrieval
MaxTypedListed == 3

TypedListings == ListingsUpTo(MaxTypedListed)

\* file_type_patterns, in the order of the dict: friendly name, api type, prefix
FriendlyPatterns ==
    << [name |-> "ChatLog", api_type |-> ENDPOINT_DEVELOPER_FILE, prefix |-> "chatlog_"],
       [name |-> "CombatLog", api_type |-> ENDPOINT_FILE, prefix |-> "combatlog_"],
       [name |-> "Diagnostics", api_type |-> ENDPOINT_DEVELOPER_FILE, prefix |-> "diagnostics_"],
       [name |-> "ServerLog", api_type |-> ENDPOINT_DEVELOPER_FILE, prefix |-> "inst_"],
       [name |-> "PEX_Summary", api_type |-> ENDPOINT_DEVELOPER_FILE, prefix |-> "pex_summary_"],
       [name |-> "PEX_Timeline", api_type |-> ENDPOINT_DEVELOPER_FILE, prefix |-> "pex_timeline_"] >>

\* list(file_type_patterns.keys())
FriendlyNames == [i \in 1..Len(FriendlyPatterns) |-> FriendlyPatterns[i].name]

\* "ft in file_type_patterns"
KnownCategory(ft) == \E i \in 1..Len(FriendlyPatterns) : FriendlyPatterns[i].name = ft

\* file_type_patterns[ft]
Friendly(ft) ==
    FriendlyPatterns[CHOOSE i \in 1..Len(FriendlyPatterns) : FriendlyPatterns[i].name = ft]

\* name.lower().startswith(prefix)
StartsWith(name, prefix) == name # <<>> /\ Lower(name[1]) = prefix

\* the file_types argument: a str or a list
StrArg(v) == [kind |-> "str", str |-> v, list |-> <<>>]

ListArg(l) == [kind |-> "list", str |-> "", list |-> l]

\* a validation that lets every name through
ValidAll(arg) == TRUE

\* "Validate file types": the checks that raise ValueError
Valid(arg) ==
    IF arg.kind = "str"
    THEN arg.str = "All" \/ KnownCategory(arg.str)
    ELSE \A k \in 1..Len(arg.list) : KnownCategory(arg.list[k])

\* file_types_list
FileTypesList(arg) ==
    IF arg.kind = "str"
    THEN IF arg.str = "All" THEN FriendlyNames ELSE <<arg.str>>
    ELSE arg.list

\* api_types_needed: the api type of each category asked for (an unknown one,
\* if validation let it through, has no entry: KeyError)
ApiTypesNeeded(l) ==
    {Friendly(l[k]).api_type : k \in {j \in 1..Len(l) : KnownCategory(l[j])}}

\* a session filter that drops every file without the session id
FriendlySessionFilterStrict(matching_files, session_id) ==
    IF session_id # <<>> THEN OfSession(matching_files, session_id)
    ELSE matching_files

\* "if session_id and len(matching_files) > 1": the files of the session, when
\* there are any
FriendlySessionFilter(matching_files, session_id) ==
    IF session_id # <<>> /\ Len(matching_files) > 1
    THEN LET session_matches == OfSession(matching_files, session_id)
         IN IF session_matches # <<>> THEN session_matches ELSE matching_files
    ELSE matching_files

\* a category looked up on both endpoints
CategoryFilesAnywhere(af, ft) ==
    LET all == (IF ENDPOINT_FILE \in DOMAIN af THEN af[ENDPOINT_FILE] ELSE <<>>)
               \o (IF ENDPOINT_DEVELOPER_FILE \in DOMAIN af
                   THEN af[ENDPOINT_DEVELOPER_FILE] ELSE <<>>)
    IN SelectSeq(all, LAMBDA f : StartsWith(f.name, Friendly(ft).prefix))

\* "if api_type in all_files: matching_files = [f for f in all_files[api_type]
\* if pattern_func(f.get("name", ""))]"
CategoryFiles(af, ft) ==
    LET api_type == Friendly(ft).api_type
    IN IF api_type \in DOMAIN af
       THEN SelectSeq(af[api_type], LAMBDA f : StartsWith(f.name, Friendly(ft).prefix))
       ELSE <<>>

\* the files downloaded for the k-th category of file_types_list
MatchingFiles(af, l, k) ==
    FriendlySessionFilter(CategoryFiles(af, l[k]), op.session_id)

\* the next (category, file) of the two download loops, from (k, j) on
RECURSIVE ExtSeek(_, _, _, _)
ExtSeek(af, l, k, j) ==
    IF k > Len(l) THEN <<k, 1>>
    ELSE IF j <= Len(MatchingFiles(af, l, k)) THEN <<k, j>>
    ELSE ExtSeek(af, l, k + 1, 1)

\* output_path = os.path.join(output_dir, file_name)
ExtOutputPath(file_name) == <<"output_dir/">> \o file_name

ExtOps ==
    {[name |-> "S2_get_match_files_by_type", ep |-> ENDPOINT_FILE, file_type |-> "None",
      session_id |-> s, pattern |-> "none", file_types |-> a] :
        s \in {NoSession, <<"S1">>},
        a \in {StrArg("All"), StrArg("Bogus"), ListArg(<<"ChatLog">>),
               ListArg(<<"CombatLog">>), ListArg(<<"CombatLog", "ChatLog">>),
               ListArg(<<"ChatLog", "Bogus">>)}}

\* download_match_file_by_type as called in Ops, with the same field set
ByTypeOps ==
    {[name |-> o.name, ep |-> o.ep, file_type |-> o.file_type,
      session_id |-> o.session_id, pattern |-> o.pattern, file_types |-> ListArg(<<>>)] :
        o \in {q \in Ops : q.name = "download_match_file_by_type"}}

InitByType ==
    /\ op \in ExtOps \cup ByTypeOps
    /\ match \in {"exists", "missing"}
    /\ listing \in (IF match = "exists" THEN TypedListings ELSE {NoListing})
    /\ pc = (IF op.name = "S2_get_match_files_by_type" THEN "validate" ELSE "gate")
    /\ ep_idx = 1
    /\ all_files = <<>>
    /\ dl_idx = 1
    /\ downloaded_files = <<>>
    /\ ret_files = <<>>
    /\ ret_gate = "unset"
    /\ raised = "none"
    /\ net = <<>>
    /\ BatchIdle
    /\ LogsIdle
    /\ ft_idx = 1
    /\ ExtIdle
    /\ RestIdle

\* the download loops start at the first category that has a file, if any
ExtStartDownloads(af, l) ==
    LET c == ExtSeek(af, l, 1, 1)
    IN /\ ft_idx' = c[1]
       /\ dl_idx' = c[2]
       /\ pc' = IF c[1] > Len(l) THEN "done" ELSE "ext_download"

\* the token, the output directory, the validation of file_types and the set of
\* api types
ExtValidate ==
    /\ pc = "validate"
    /\ provider_calls' = provider_calls + 1
    /\ frames' = Append(frames, [token |-> Issued(provider_calls + 1), from |-> Len(net) + 1])
    /\ IF Valid(op.file_types)
       THEN LET l == FileTypesList(op.file_types)
            IN /\ file_types_list' = l
               /\ api_types_needed' = ApiTypesNeeded(l)
               /\ IF \E k \in 1..Len(l) : ~KnownCategory(l[k])
                  THEN /\ raised' = "KeyError"
                       /\ pc' = "done"
                       /\ UNCHANGED <<ft_idx, dl_idx>>
                  ELSE /\ raised' = raised
                       /\ IF ApiTypesNeeded(l) = {}
                          THEN ExtStartDownloads(ext_all_files, l)
                          ELSE pc' = "ext_list" /\ UNCHANGED <<ft_idx, dl_idx>>
       ELSE /\ raised' = "ValueError"
            /\ pc' = "done"
            /\ UNCHANGED <<file_types_list, api_types_needed, ft_idx, dl_idx>>
    /\ UNCHANGED <<op, match, listing, ep_idx, all_files, downloaded_files, ret_files,
                   ret_gate, net, files, maxc, st, off, results, disk, progressVars,
                   logsVars, ext_all_files, ext_downloaded_files, classifyVars,
                   token_arg, matchVars, dfVars, stuck, log_session_id,
                   fetchVars>>

\* one turn of "for api_type in api_types_needed" (a set: any order):
\* rh_list_match_files looks the match up, raises FileNotFoundError unless the
\* answer is 200, lists the endpoint and raises for an answer other than 200;
\* the loop prints the exception and goes on
ExtListFiles ==
    /\ pc = "ext_list"
    /\ \E api_type \in api_types_needed, status \in GateStatuses, ok \in BOOLEAN :
         LET exists == RhCheckMatchExists(status) = "True"
             gate == Request("gate", "match", <<>>, status)
             list == Request("list", api_type, <<>>, IF ok THEN 200 ELSE 500)
             named == Named(TagFiles(listing[api_type], api_type))
             af == IF exists /\ ok /\ named # <<>>
                   THEN (api_type :> named) @@ ext_all_files
                   ELSE ext_all_files
         IN /\ net' = IF exists THEN net \o <<gate, list>> ELSE Append(net, gate)
            /\ ext_all_files' = af
            /\ api_types_needed' = api_types_needed \ {api_type}
            /\ IF api_types_needed = {api_type}
               THEN ExtStartDownloads(af, file_types_list)
               ELSE UNCHANGED <<pc, ft_idx, dl_idx>>
    /\ UNCHANGED <<op, match, listing, ep_idx, all_files, downloaded_files, ret_files,
                   ret_gate, raised, files, maxc, st, off, results, disk, progressVars,
                   logsVars, file_types_list, ext_downloaded_files, restVars>>

\* one turn of "for file_info in matching_files": rh_download_match_file, the
\* entry of downloaded_files, or the exception printed
ExtDownload ==
    /\ pc = "ext_download"
    /\ \E ok \in BOOLEAN :
         LET f == MatchingFiles(ext_all_files, file_types_list, ft_idx)[dl_idx]
             c == ExtSeek(ext_all_files, file_types_list, ft_idx, dl_idx + 1)
         IN /\ net' = Append(net, Request("download", Friendly(file_types_list[ft_idx]).api_type,
                                          f.name, IF ok THEN 200 ELSE 500))
            /\ ext_downloaded_files' =
                 IF ok THEN (f.name :> ExtOutputPath(f.name)) @@ ext_downloaded_files
                 ELSE ext_downloaded_files
            /\ ft_idx' = c[1]
            /\ dl_idx' = c[2]
            /\ pc' = IF c[1] > Len(file_types_list) THEN "done" ELSE "ext_download"
    /\ UNCHANGED <<op, match, listing, ep_idx, all_files, downloaded_files, ret_files,
                   ret_gate, raised, files, maxc, st, off, results, disk, progressVars,
                   logsVars, file_types_list, api_types_needed, ext_all_files, restVars>>

NextByType ==
    \/ Gate
    \/ List
    \/ Download
    \/ ExtValidate
    \/ ExtListFiles
    \/ ExtDownload

SpecByType == InitByType /\ [][NextByType]_vars

-----------------------------------------------------------------------------
(* FileTypeConstants.identify_file_type as a function of the filename and of *)
(* the order in which the pattern table is walked                            *)

\* the tokens filenames are made of: every prefix of the table, two spellings
\* of one of them, a foreign prefix, a session id and the extensions
NameTokens ==
    {"CombatLog_", "combatlog_", "ChatLog_", "ConsoleLog_", "GameSessionSummary_",
     "MatchSummary_", "ServerMetadata_", "Diagnostics_", "S1", ".log", ".LOG", ".json"}

ClassifyNames == UNION {[1..n -> NameTokens] : n \in 0..MaxNameLen}

Reversed(t) == [i \in 1..Len(t) |-> t[Len(t) + 1 - i]]

Rotated(t, k) == [i \in 1..Len(t) |-> t[((i + k - 1) % Len(t)) + 1]]

\* orders of FILE_TYPE_PATTERNS.items(): every pattern comes first in one of
\* them and every two patterns come in both orders
TableOrders ==
    {Rotated(FILE_TYPE_PATTERNS, k) : k \in 0..(Len(FILE_TYPE_PATTERNS) - 1)}
        \cup {Reversed(FILE_TYPE_PATTERNS)}

\* "for file_type, pattern in cls.FILE_TYPE_PATTERNS.items():
\*      if pattern.match(filename): return file_type" and "return None"
RECURSIVE FirstMatch(_, _, _)
FirstMatch(table, filename, i) ==
    IF i > Len(table) THEN "None"
    ELSE IF PatternMatches(table[i], filename) THEN table[i].type
    ELSE FirstMatch(table, filename, i + 1)

\* identify_file_type over a table: "if not filename: return None", then the walk
IdentifyFileTypeIn(table, filename) ==
    IF filename = <<>> THEN "None" ELSE FirstMatch(table, filename, 1)

InitClassify ==
    /\ op = MkOp("identify_file_type", ENDPOINT_FILE, "None", NoSession)
    /\ match = "exists"
    /\ listing = NoListing
    /\ pc = "idle"
    /\ ep_idx = 1
    /\ all_files = <<>>
    /\ dl_idx = 1
    /\ downloaded_files = <<>>
    /\ ret_files = <<>>
    /\ ret_gate = "unset"
    /\ raised = "none"
    /\ net = <<>>
    /\ BatchIdle
    /\ LogsIdle
    /\ ft_idx = 1
    /\ ExtIdle
    /\ cls_name \in ClassifyNames
    /\ cls_table \in TableOrders
    /\ cls_type = "None"
    /\ cls_pc = "call"
    /\ TokenIdle
    /\ MatchIdle
    /\ DfIdle
    /\ stuck = 0
    /\ log_session_id = "unset"
    /\ FetchIdle

\* FileTypeConstants.identify_file_type(filename)
Classify ==
    /\ cls_pc = "call"
    /\ cls_type' = IdentifyFileTypeIn(cls_table, cls_name)
    /\ cls_pc' = "done"
    /\ UNCHANGED <<op, match, listing, pc, ep_idx, all_files, dl_idx, downloaded_files,
                   ret_files, ret_gate, raised, net, files, maxc, st, off, results, disk,
                   progressVars, logsVars, ft_idx, extVars, cls_name, cls_table,
                   tokenVars, matchVars, dfVars, stuck, log_session_id,
                   fetchVars>>

NextClassify ==
    \/ Classify

SpecClassify == InitClassify /\ [][NextClassify]_vars

-----------------------------------------------------------------------------
(* S2_get_filtered_match_files of files_api_sdk_extension.py: the pages of   *)
(* matches, the instance filters and one S2_get_match_files_by_type call per  *)
(* match that passed                                                          *)

\* largest limit argument tried
MaxLimit == 2
\* matches of the longest page the backend answers with
MaxPage == 1
\* files the backend lists for one match of the batch
MaxFilteredListed == 1

\* matches the backend may return: with and without a session, of another
\* region, without a match_id
MatchPool ==
    {[match_id |-> "m1", instances |-> TRUE, region |-> "eu", session_id |-> <<"S1">>],
     [match_id |-> "m2", instances |-> TRUE, region |-> "na", session_id |-> NoSession],
     [match_id |-> "None", instances |-> TRUE, region |-> "eu", session_id |-> NoSession]}

\* the answers to GET match/v1/match: a page with or without a cursor
Pages ==
    {[matches |-> m, cursor |-> c] :
        m \in UNION {[1..n -> MatchPool] : n \in 0..MaxPage}, c \in {"None", "next"}}

FilteredListings == ListingsUpTo(MaxFilteredListed)

\* the instance checks of the filter loop, for the filters supplied
PassesInstance(m, region) ==
    /\ m.instances
    /\ (region # "None" => m.region = region)

Min(a, b) == IF a <= b THEN a ELSE b

\* "for match in all_matches: ... filtered_matches.append(match);
\*  if len(filtered_matches) >= limit: break"
FilteredMatches(all, region, lim) ==
    LET kept == SelectSeq(all, LAMBDA m : PassesInstance(m, region))
    IN SubSeq(kept, 1, Min(Len(kept), IF lim < 1 THEN 1 ELSE lim))

FilteredOps ==
    {[name |-> "S2_get_filtered_match_files", ep |-> ENDPOINT_FILE, file_type |-> "None",
      session_id |-> NoSession, pattern |-> "none", file_types |-> a] :
        a \in {StrArg("Bogus"), ListArg(<<"CombatLog">>)}}

InitFiltered ==
    /\ op \in FilteredOps
    /\ match = "exists"
    /\ listing = NoListing
    /\ pc = "idle"
    /\ ep_idx = 1
    /\ all_files = <<>>
    /\ dl_idx = 1
    /\ downloaded_files = <<>>
    /\ ret_files = <<>>
    /\ ret_gate = "unset"
    /\ raised = "none"
    /\ net = <<>>
    /\ BatchIdle
    /\ LogsIdle
    /\ ft_idx = 1
    /\ ExtIdle
    /\ ClassifyIdle
    /\ token_arg \in {"None", "caller"}
    /\ provider_calls = 0
    /\ frames = <<>>
    /\ limit \in 0..MaxLimit
    /\ region_id \in {"None", "eu"}
    /\ all_matches = <<>>
    /\ matches_processed = 0
    /\ cursor = "None"
    /\ filtered_matches = <<>>
    /\ fm_idx = 1
    /\ result = <<>>
    /\ m_pc = "call"
    /\ DfIdle
    /\ stuck = 0
    /\ log_session_id = "unset"
    /\ FetchIdle

\* the pagination loop is over: the filter loop, then the loop over
\* filtered_matches
AfterPages(all) ==
    /\ filtered_matches' = FilteredMatches(all, region_id, limit)
    /\ fm_idx' = 1
    /\ m_pc' = "matches"

\* "if token is None: token = self._get_env_access_token()", and the head of
\* the pagination loop
FilteredEnter ==
    /\ m_pc = "call"
    /\ IF token_arg = "None"
       THEN /\ provider_calls' = provider_calls + 1
            /\ frames' = Append(frames, [token |-> Issued(provider_calls + 1), from |-> Len(net) + 1])
       ELSE /\ provider_calls' = provider_calls
            /\ frames' = Append(frames, [token |-> Supplied, from |-> Len(net) + 1])
    /\ IF matches_processed < limit
       THEN m_pc' = "pages" /\ UNCHANGED <<filtered_matches, fm_idx>>
       ELSE AfterPages(all_matches)
    /\ UNCHANGED <<op, match, listing, pc, ep_idx, all_files, dl_idx, downloaded_files,
                   ret_files, ret_gate, raised, net, files, maxc, st, off, results, disk,
                   progressVars, logsVars, ft_idx, extVars, classifyVars, token_arg,
                   limit, region_id, all_matches, matches_processed, cursor, result,
                   dfVars, stuck, log_session_id,
                   fetchVars>>

\* one turn of "while matches_processed < limit": the request, raise_for_status
\* (nothing catches it), the two breaks
FilteredPage ==
    /\ m_pc = "pages"
    /\ \/ /\ net' = Append(net, Request("matches", "match", <<>>, 500))
          /\ raised' = "HTTPError"
          /\ m_pc' = "returned"
          /\ UNCHANGED <<all_matches, matches_processed, cursor, filtered_matches, fm_idx>>
       \/ \E page \in Pages :
            /\ net' = Append(net, Request("matches", "match", <<>>, 200))
            /\ raised' = raised
            /\ IF page.matches = <<>>
               THEN /\ AfterPages(all_matches)
                    /\ UNCHANGED <<all_matches, matches_processed, cursor>>
               ELSE /\ all_matches' = all_matches \o page.matches
                    /\ matches_processed' = matches_processed + Len(page.matches)
                    /\ cursor' = page.cursor
                    /\ IF page.cursor = "None"
                          \/ ~(matches_processed + Len(page.matches) < limit)
                       THEN AfterPages(all_matches \o page.matches)
                       ELSE UNCHANGED <<filtered_matches, fm_idx, m_pc>>
    /\ UNCHANGED <<op, match, listing, pc, ep_idx, all_files, dl_idx, downloaded_files,
                   ret_files, ret_gate, files, maxc, st, off, results, disk,
                   progressVars, logsVars, ft_idx, extVars, classifyVars, tokenVars,
                   limit, region_id, result, dfVars, stuck, log_session_id,
                   fetchVars>>

\* the call of S2_get_match_files_by_type for one match: the callee starts
\* from its first line, on the files the backend has for that match
StartExtCall(m) ==
    /\ op' = [name |-> "S2_get_match_files_by_type", ep |-> ENDPOINT_FILE,
              file_type |-> "None", session_id |-> m.session_id, pattern |-> "none",
              file_types |-> op.file_types]
    /\ match' \in {"exists", "missing"}
    /\ listing' \in (IF match' = "exists" THEN FilteredListings ELSE {NoListing})
    /\ pc' = "validate"
    /\ ft_idx' = 1
    /\ dl_idx' = 1
    /\ raised' = "none"
    /\ file_types_list' = <<>>
    /\ api_types_needed' = {}
    /\ ext_all_files' = <<>>
    /\ ext_downloaded_files' = <<>>

\* one turn of "for match in filtered_matches": a match without match_id is
\* passed over, the others are handed to S2_get_match_files_by_type; after the
\* last one, "return result"
FilteredMatch ==
    /\ m_pc = "matches"
    /\ IF fm_idx > Len(filtered_matches)
       THEN /\ m_pc' = "returned"
            /\ UNCHANGED <<op, match, listing, pc, ft_idx, dl_idx, raised, extVars, fm_idx>>
       ELSE IF filtered_matches[fm_idx].match_id = "None"
            THEN /\ fm_idx' = fm_idx + 1
                 /\ UNCHANGED <<op, match, listing, pc, ft_idx, dl_idx, raised, extVars, m_pc>>
            ELSE /\ StartExtCall(filtered_matches[fm_idx])
                 /\ m_pc' = "nested"
                 /\ UNCHANGED fm_idx
    /\ UNCHANGED <<ep_idx, all_files, downloaded_files, ret_files, ret_gate, net,
                   files, maxc, st, off, results, disk, progressVars, logsVars,
                   classifyVars, tokenVars, limit, region_id, all_matches,
                   matches_processed, cursor, filtered_matches, result, dfVars, stuck, log_session_id,
                   fetchVars>>

\* S2_get_match_files_by_type has returned or raised: "if downloaded_files:
\* result[match_id] = downloaded_files", or the exception printed; next match
FilteredMatchDone ==
    /\ m_pc = "nested"
    /\ pc = "done"
    /\ result' = IF raised = "none" /\ ext_downloaded_files # <<>>
                 THEN (filtered_matches[fm_idx].match_id :> ext_downloaded_files) @@ result
                 ELSE result
    /\ raised' = "none"
    /\ pc' = "idle"
    /\ fm_idx' = fm_idx + 1
    /\ m_pc' = "matches"
    /\ UNCHANGED <<op, match, listing, ep_idx, all_files, dl_idx, downloaded_files,
                   ret_files, ret_gate, net, files, maxc, st, off, results, disk,
                   progressVars, logsVars, ft_idx, extVars, classifyVars, tokenVars,
                   limit, region_id, all_matches, matches_processed, cursor,
                   filtered_matches, dfVars, stuck, log_session_id,
                   fetchVars>>

NextFiltered ==
    \/ FilteredEnter
    \/ FilteredPage
    \/ FilteredMatch
    \/ ExtValidate
    \/ ExtListFiles
    \/ ExtDownload
    \/ FilteredMatchDone

SpecFiltered == InitFiltered /\ [][NextFiltered]_vars

-----------------------------------------------------------------------------
(* _download_file of files_api.py called on its own, without a progress       *)
(* callback, and called again with the same arguments                         *)

\* calls made in succession with the same arguments
MaxCalls == 2

\* the output_path arguments tried
DfPaths == {<<"out/", "a.log">>, <<"out/", "sub/", "b.log">>}

\* the bodies the backend streams, as chunks of iter_content
DfBodies == {[k \in 1..n |-> <<"chunk", k>>] : n \in 0..MaxChunks}

\* what may go wrong in the try block, by the statement it goes wrong in
DfFaults(stage) ==
    CASE stage = "makedirs" -> {[type |-> "PermissionError", msg |-> <<"Permission denied">>]}
      [] stage = "request" -> {[type |-> "ConnectionError", msg |-> <<"Connection refused">>],
                               [type |-> "HTTPError", msg |-> <<"404 Client Error">>],
                               [type |-> "HTTPError", msg |-> <<"500 Server Error">>]}
      [] stage = "open" -> {[type |-> "IsADirectoryError", msg |-> <<"Is a directory">>]}
      [] stage = "stream" -> {[type |-> "ChunkedEncodingError", msg |-> <<"Connection broken">>],
                              [type |-> "OSError", msg |-> <<"No space left on device">>]}

\* builtin exceptions that do not derive from Exception
BaseOnly == {"KeyboardInterrupt", "SystemExit", "GeneratorExit"}

\* an except clause for the errors of the requests library only
CatchesRequestErrors(e) == e.type \in {"ConnectionError", "HTTPError", "ChunkedEncodingError"}

\* "except Exception as e"
CatchesException(e) == e.type \notin BaseOnly

\* DownloadError(f"Failed to download file to {output_path}: {str(e)}")
DownloadErrorOf(output_path, e) ==
    [type |-> "DownloadError",
     msg |-> <<"Failed to download file to ">> \o output_path \o <<": ">> \o e.msg]

\* a file opened for appending
OpenedForAppend(file, call) == [exists |-> TRUE, by |-> call, data |-> file.data]

\* open(output_path, 'wb'): the file is created, or truncated when it exists
Opened(file, call) == [exists |-> TRUE, by |-> call, data |-> <<>>]

InitDownloadFile ==
    /\ op = MkOp("_download_file", ENDPOINT_FILE, "None", NoSession)
    /\ match = "exists"
    /\ listing = NoListing
    /\ pc = "idle"
    /\ ep_idx = 1
    /\ all_files = <<>>
    /\ dl_idx = 1
    /\ downloaded_files = <<>>
    /\ ret_files = <<>>
    /\ ret_gate = "unset"
    /\ raised = "none"
    /\ net = <<>>
    /\ files = <<>>
    /\ maxc = 0
    /\ st = <<>>
    /\ off = <<>>
    /\ results = <<>>
    /\ disk = [p \in DfPaths |-> NoFile]
    /\ progress_callback = FALSE
    /\ total_size = <<>>
    /\ progress = <<>>
    /\ LogsIdle
    /\ ft_idx = 1
    /\ ExtIdle
    /\ ClassifyIdle
    /\ TokenIdle
    /\ MatchIdle
    /\ df_path \in DfPaths
    /\ df_body \in DfBodies
    /\ df_call = 1
    /\ df_pc = "makedirs"
    /\ df_off = 0
    /\ df_error = NoError
    /\ df_returns = <<>>
    /\ stuck = 0
    /\ log_session_id = "unset"
    /\ FetchIdle

\* a statement of the try block raises
DfRaise(e) ==
    /\ df_error' = e
    /\ df_pc' = "except"

\* os.makedirs(os.path.dirname(os.path.abspath(output_path)), exist_ok=True)
DfMakedirs ==
    /\ df_pc = "makedirs"
    /\ \/ df_pc' = "request" /\ UNCHANGED df_error
       \/ \E e \in DfFaults("makedirs") : DfRaise(e)
    /\ UNCHANGED <<op, match, listing, pc, ep_idx, all_files, dl_idx, downloaded_files,
                   ret_files, ret_gate, raised, net, files, maxc, st, off, results, disk,
                   progressVars, logsVars, ft_idx, extVars, classifyVars, tokenVars,
                   matchVars, df_path, df_body, df_call, df_off, df_returns,
                   stuck, log_session_id,
                   fetchVars>>

\* requests.get(url, headers=headers, stream=True), response.raise_for_status()
\* and the content-length
DfRequest ==
    /\ df_pc = "request"
    /\ \/ df_pc' = "open" /\ UNCHANGED df_error
       \/ \E e \in DfFaults("request") : DfRaise(e)
    /\ UNCHANGED <<op, match, listing, pc, ep_idx, all_files, dl_idx, downloaded_files,
                   ret_files, ret_gate, raised, net, files, maxc, st, off, results, disk,
                   progressVars, logsVars, ft_idx, extVars, classifyVars, tokenVars,
                   matchVars, df_path, df_body, df_call, df_off, df_returns,
                   stuck, log_session_id,
                   fetchVars>>

\* "with open(output_path, 'wb') as f"
DfOpen ==
    /\ df_pc = "open"
    /\ \/ /\ disk' = [disk EXCEPT ![df_path] = Opened(@, df_call)]
          /\ df_off' = 0
          /\ df_pc' = "stream"
          /\ UNCHANGED df_error
       \/ /\ \E e \in DfFaults("open") : DfRaise(e)
          /\ UNCHANGED <<disk, df_off>>
    /\ UNCHANGED <<op, match, listing, pc, ep_idx, all_files, dl_idx, downloaded_files,
                   ret_files, ret_gate, raised, net, files, maxc, st, off, results,
                   progressVars, logsVars, ft_idx, extVars, classifyVars, tokenVars,
                   matchVars, df_path, df_body, df_call, df_returns,
                   stuck, log_session_id,
                   fetchVars>>

\* one turn of "for chunk in response.iter_content(chunk_size=8192)":
\* f.write(chunk) at the end of what the handle has written, or the stream or
\* the write raises and the with block closes the file
DfChunk ==
    /\ df_pc = "stream"
    /\ df_off < Len(df_body)
    /\ \/ /\ disk' = [disk EXCEPT ![df_path].data = Append(@, df_body[df_off + 1])]
          /\ df_off' = df_off + 1
          /\ UNCHANGED <<df_pc, df_error>>
       \/ /\ \E e \in DfFaults("stream") : DfRaise(e)
          /\ UNCHANGED <<disk, df_off>>
    /\ UNCHANGED <<op, match, listing, pc, ep_idx, all_files, dl_idx, downloaded_files,
                   ret_files, ret_gate, raised, net, files, maxc, st, off, results,
                   progressVars, logsVars, ft_idx, extVars, classifyVars, tokenVars,
                   matchVars, df_path, df_body, df_call, df_returns,
                   stuck, log_session_id,
                   fetchVars>>

\* the body is complete: the with block closes the file, "return output_path"
DfReturn ==
    /\ df_pc = "stream"
    /\ df_off = Len(df_body)
    /\ df_returns' = Append(df_returns, [kind |-> "return", path |-> df_path, exc |-> NoError])
    /\ df_pc' = "returned"
    /\ UNCHANGED <<op, match, listing, pc, ep_idx, all_files, dl_idx, downloaded_files,
                   ret_files, ret_gate, raised, net, files, maxc, st, off, results, disk,
                   progressVars, logsVars, ft_idx, extVars, classifyVars, tokenVars,
                   matchVars, df_path, df_body, df_call, df_off, df_error,
                   stuck, log_session_id,
                   fetchVars>>

\* "except Exception as e: raise DownloadError(...)"
DfExcept ==
    /\ df_pc = "except"
    /\ df_returns' =
         Append(df_returns,
                [kind |-> "raise", path |-> <<>>,
                 exc |-> IF CatchesException(df_error)
                         THEN DownloadErrorOf(df_path, df_error)
                         ELSE df_error])
    /\ df_pc' = "raised"
    /\ UNCHANGED <<op, match, listing, pc, ep_idx, all_files, dl_idx, downloaded_files,
                   ret_files, ret_gate, raised, net, files, maxc, st, off, results, disk,
                   progressVars, logsVars, ft_idx, extVars, classifyVars, tokenVars,
                   matchVars, df_path, df_body, df_call, df_off, df_error,
                   stuck, log_session_id,
                   fetchVars>>

\* the caller calls _download_file again with the same url and output_path
DfAgain ==
    /\ df_pc \in {"returned", "raised"}
    /\ df_call < MaxCalls
    /\ df_call' = df_call + 1
    /\ df_pc' = "makedirs"
    /\ df_off' = 0
    /\ df_error' = NoError
    /\ UNCHANGED <<op, match, listing, pc, ep_idx, all_files, dl_idx, downloaded_files,
                   ret_files, ret_gate, raised, net, files, maxc, st, off, results, disk,
                   progressVars, logsVars, ft_idx, extVars, classifyVars, tokenVars,
                   matchVars, df_path, df_body, df_returns,
                   stuck, log_session_id,
                   fetchVars>>

NextDownloadFile ==
    \/ DfMakedirs
    \/ DfRequest
    \/ DfOpen
    \/ DfChunk
    \/ DfReturn
    \/ DfExcept
    \/ DfAgain

SpecDownloadFile == InitDownloadFile /\ [][NextDownloadFile]_vars

-----------------------------------------------------------------------------
(* download_match_files with a pool, one of whose transfers may hang *)

\* descriptors passed to a call one of whose transfers hangs
MaxStuckBatch == 3

StuckBatches == {q \in Batches : Len(q) <= MaxStuckBatch}

InitStuck ==
    /\ op \in {o \in BatchOps : o.pattern = "none"}
    /\ match = "exists"
    /\ listing = NoListing
    /\ pc = "call"
    /\ ep_idx = 1
    /\ all_files = <<>>
    /\ dl_idx = 1
    /\ downloaded_files = <<>>
    /\ ret_files = <<>>
    /\ ret_gate = "unset"
    /\ raised = "none"
    /\ net = <<>>
    /\ files \in StuckBatches
    /\ maxc \in 2..MaxConc
    /\ st = [i \in 1..Len(files) |-> "queued"]
    /\ off = [i \in 1..Len(files) |-> 0]
    /\ results = [i \in 1..Len(files) |-> <<>>]
    /\ disk = [p \in Paths |-> NoFile]
    /\ progress_callback = FALSE
    /\ total_size = [i \in 1..Len(files) |-> 0]
    /\ progress = [i \in 1..Len(files) |-> <<>>]
    /\ LogsIdle
    /\ ft_idx = 1
    /\ ExtIdle
    /\ ClassifyIdle
    /\ TokenIdle
    /\ MatchIdle
    /\ DfIdle
    /\ stuck \in {0} \cup {i \in 1..Len(files) : files[i].name # <<>>}
    /\ log_session_id = "unset"
    /\ FetchIdle

\* the transfer of a task comes to an end, well or badly
Completes(i) == RequestFail(i) \/ StreamFail(i) \/ Finish(i)

\* a worker takes the task off the queue
Starts(i) == Skip(i) \/ Begin(i)

\* the transfer of a task goes on
Proceeds(i) == Open(i) \/ WriteChunk(i)

\* the steps of the pool when the transfer of the task "stuck" never ends: it
\* may be answered and receive chunks, and then hangs
NextStuck ==
    \/ Enter
    \/ \E i \in Tasks : Starts(i)
    \/ \E i \in Tasks : Proceeds(i)
    \/ \E i \in Tasks : i # stuck /\ Completes(i)
    \/ PoolCollect

\* the executor's threads are scheduled fairly: a queued task is taken as soon
\* as a worker is free, and a transfer that does not hang goes on to its end
FairStuck ==
    /\ WF_vars(Enter)
    /\ \A i \in 1..MaxStuckBatch : WF_vars(i \in Tasks /\ Starts(i))
    /\ \A i \in 1..MaxStuckBatch :
         WF_vars(i \in Tasks /\ i # stuck /\ (Proceeds(i) \/ Completes(i)))

SpecStuck == InitStuck /\ [][NextStuck]_vars /\ FairStuck

-----------------------------------------------------------------------------
(* filter_match_files_by_session of files_api.py *)

\* files the backend lists for the match whose files are filtered by session
MaxSessionListed == 3

\* names whose session id is made of several runs of characters
SessionNames ==
    {<<"ChatLog_", "ABC", "123", ".log">>, <<"CombatLog_", "ABC", ".log">>,
     <<"ChatLog_", "123", "ABC", ".log">>, NoName}

SessionListings ==
    {[e \in Endpoints |-> IF e = ENDPOINT_FILE THEN a ELSE <<>>] :
        a \in UNION {[1..n -> SessionNames] : n \in 0..MaxSessionListed}}

\* the session_id arguments tried: a whole id, parts of one, an id no name
\* holds, the empty string
SessionIds == {<<"ABC", "123">>, <<"ABC">>, <<"123">>, <<"123", ".log">>, <<"XYZ">>, <<>>}

\* filter_match_files_by_session(match_id, session_id, token): list_match_files
\* is called with its default file_type
SessionOps ==
    {MkOp("filter_match_files_by_session", ENDPOINT_FILE, "None", sid) : sid \in SessionIds}

InitSession ==
    /\ op \in SessionOps
    /\ match \in {"exists", "missing"}
    /\ listing \in (IF match = "exists" THEN SessionListings ELSE {NoListing})
    /\ pc = "gate"
    /\ ep_idx = 1
    /\ all_files = <<>>
    /\ dl_idx = 1
    /\ downloaded_files = <<>>
    /\ ret_files = <<>>
    /\ ret_gate = "unset"
    /\ raised = "none"
    /\ net = <<>>
    /\ BatchIdle
    /\ LogsIdle
    /\ ft_idx = 1
    /\ ExtIdle
    /\ RestIdle

NextSession ==
    \/ Gate
    \/ List

SpecSession == InitSession /\ [][NextSession]_vars

-----------------------------------------------------------------------------
(* download_combat_log and download_chat_log of files_api.py *)

\* what the class FileTypeConstants defines
ClassAttributes ==
    {"COMBAT_LOG", "CHAT_LOG", "CONSOLE_LOG", "GAME_SESSION_SUMMARY", "MATCH_SUMMARY",
     "SERVER_METADATA", "SOURCE_TYPE_MATCH", "SOURCE_TYPE_SESSION", "SOURCE_TYPE_INSTANCE",
     "ENDPOINT_FILE", "ENDPOINT_DEVELOPER_FILE", "FILE_TYPE_ENDPOINTS", "FILE_TYPE_PATTERNS",
     "identify_file_type", "get_endpoints_for_file_type"}

\* FileTypeConstants.<a>: a name the class does not define raises AttributeError
GetAttr(a) == IF a \in ClassAttributes THEN "ok" ELSE "AttributeError"

\* f"CombatLog_{session_id}.log" / f"ChatLog_{session_id}.log"
ExpectedName(file_type, session_id) ==
    <<IF file_type = COMBAT_LOG THEN "CombatLog_" ELSE "ChatLog_">> \o session_id \o <<".log">>

\* the index in logs of selected_log, 0 for None: the first log whose name is
\* the expected one, or the first log when no session_id is given
SelectedLog(logs, file_type, session_id) ==
    IF session_id # NoSession
    THEN LET hits == {k \in 1..Len(logs) : logs[k].name = ExpectedName(file_type, session_id)}
         IN IF hits = {} THEN 0 ELSE CHOOSE k \in hits : \A j \in hits : k <= j
    ELSE 1

LogFileOps ==
    {MkOp("download_combat_log", ENDPOINT_FILE, COMBAT_LOG, s) : s \in {NoSession, <<"S1">>}}
    \cup {MkOp("download_chat_log", ENDPOINT_DEVELOPER_FILE, CHAT_LOG, s) :
            s \in {NoSession, <<"S1">>}}

InitLogFile ==
    /\ op \in LogFileOps
    /\ match \in {"exists", "missing"}
    /\ listing \in (IF match = "exists" THEN LogsListings ELSE {NoListing})
    /\ pc = "gate"
    /\ ep_idx = 1
    /\ all_files = <<>>
    /\ dl_idx = 1
    /\ downloaded_files = <<>>
    /\ ret_files = <<>>
    /\ ret_gate = "unset"
    /\ raised = "none"
    /\ net = <<>>
    /\ BatchIdle
    /\ LogsIdle
    /\ ft_idx = 1
    /\ ExtIdle
    /\ RestIdle

\* from "Find combat log" to the session id of the selected log: the logs of
\* the type, the selection, the sessionId of the listing metadata and, without
\* one, the call of FileTypeConstants.extract_session_id
LogSelect ==
    /\ pc = "select"
    /\ LET logs == OfType(all_files, op.file_type)
           k == SelectedLog(logs, op.file_type, op.session_id)
       IN IF logs = <<>> \/ k = 0
          THEN /\ raised' = "FileNotFoundException"
               /\ pc' = "done"
               /\ UNCHANGED <<dl_idx, log_session_id>>
          ELSE \E has_session_id \in BOOLEAN :
                 IF has_session_id
                 THEN /\ log_session_id' = "metadata"
                      /\ dl_idx' = k
                      /\ pc' = "fetch"
                      /\ raised' = raised
                 ELSE /\ log_session_id' = "None"
                      /\ dl_idx' = k
                      /\ raised' = GetAttr("extract_session_id")
                      /\ pc' = IF GetAttr("extract_session_id") = "ok" THEN "fetch" ELSE "done"
    /\ UNCHANGED <<op, match, listing, ep_idx, all_files, downloaded_files, ret_files,
                   ret_gate, net, files, maxc, st, off, results, disk, progressVars,
                   logsVars, ft_idx, extVars, classifyVars, tokenVars, matchVars, dfVars,
                   stuck, fetchVars>>

\* the request for the selected log and the file written, inside
\* "try ... except Exception as e: raise DownloadError"
LogFetch ==
    /\ pc = "fetch"
    /\ \E ok \in BOOLEAN :
         LET f == OfType(all_files, op.file_type)[dl_idx]
         IN /\ net' = Append(net, Request("download", f.api_type, f.name,
                                          IF ok THEN 200 ELSE 500))
            /\ downloaded_files' = IF ok THEN <<f.name>> ELSE downloaded_files
            /\ raised' = IF ok THEN "none" ELSE "DownloadError"
            /\ pc' = "done"
    /\ UNCHANGED <<op, match, listing, ep_idx, all_files, dl_idx, ret_files,
                   ret_gate, files, maxc, st, off, results, disk, progressVars,
                   logsVars, ft_idx, extVars, restVars>>

NextLogFile ==
    \/ Gate
    \/ List
    \/ LogSelect
    \/ LogFetch

SpecLogFile == InitLogFile /\ [][NextLogFile]_vars

-----------------------------------------------------------------------------
(* The paginated match fetches: rh_fetch_matches_by_time_range of            *)
(* smite2_rh_sdk.py and get_filtered_matches of files_api.py, called without  *)
(* game_mode, callback or custom filters                                      *)

\* largest limit argument of a match fetch
MaxFetchLimit == 2
\* matches of the longest page a match fetch is answered with
MaxFetchPage == 2

\* matches the backend may return: the regions of their instances and their
\* duration_seconds, <<>> when the field is absent
FetchPool ==
    {[match_id |-> "a", instances |-> <<"eu">>, duration_seconds |-> <<5>>],
     [match_id |-> "b", instances |-> <<"na", "eu">>, duration_seconds |-> <<20>>],
     [match_id |-> "c", instances |-> <<>>, duration_seconds |-> <<10>>],
     [match_id |-> "d", instances |-> <<"eu">>, duration_seconds |-> <<>>]}

FetchPages ==
    {[matches |-> m, cursor |-> c] :
        m \in UNION {[1..n -> FetchPool] : n \in 0..MaxFetchPage}, c \in {"None", "next"}}

\* match.get("duration_seconds", 0)
DurationOf(m) == IF m.duration_seconds = <<>> THEN 0 ELSE m.duration_seconds[1]

\* DurationFilter.apply
DurationFilterApply(m) ==
    /\ ~(min_duration # <<>> /\ DurationOf(m) < min_duration[1])
    /\ ~(max_duration # <<>> /\ DurationOf(m) > max_duration[1])

\* RegionFilter.apply: any instance of the region
RegionFilterApply(m) ==
    m.instances # <<>> /\ \E k \in 1..Len(m.instances) : m.instances[k] = region_id

\* all_filters and _apply_filters: a match passes if it passes every filter
ApplyFilters(matches) ==
    SelectSeq(matches, LAMBDA m :
        /\ (min_duration # <<>> \/ max_duration # <<>>) => DurationFilterApply(m)
        /\ region_id # "None" => RegionFilterApply(m))

\* _filter_matches_by_criteria: the duration checks, then the first instance
FilterMatchesByCriteria(matches) ==
    SelectSeq(matches, LAMBDA m :
        /\ ~(min_duration # <<>>
               /\ (m.duration_seconds = <<>> \/ DurationOf(m) < min_duration[1]))
        /\ ~(max_duration # <<>>
               /\ (m.duration_seconds # <<>> /\ DurationOf(m) > max_duration[1]))
        /\ m.instances # <<>>
        /\ ~(region_id # "None" /\ m.instances[1] # region_id))

\* the matches of a page that are added to all_matches
PageFilter(matches) ==
    IF op.name = "rh_fetch_matches_by_time_range" THEN ApplyFilters(matches)
    ELSE FilterMatchesByCriteria(matches)

\* pagination counted in the matches that passed the filters
ProcessedFiltered(matches, filtered) == Len(filtered)

\* "matches_processed += len(matches)  # Count original matches for pagination"
Processed(matches, filtered) == Len(matches)

\* "while no_limit or matches_processed < limit"
LoopGoesOn(processed) == limit = 0 \/ processed < limit

\* a return without the cut
ReturnedUncut(all) == all

\* "if limit > 0: return all_matches[:limit]" / "if limit > 0 and
\* len(all_matches) > limit: return all_matches[:limit]", else all_matches
Returned(all) ==
    IF op.name = "rh_fetch_matches_by_time_range"
    THEN IF limit > 0 THEN SubSeq(all, 1, Min(Len(all), limit)) ELSE all
    ELSE IF limit > 0 /\ Len(all) > limit THEN SubSeq(all, 1, limit) ELSE all

FetchOps ==
    {MkOp(n, ENDPOINT_FILE, "None", NoSession) :
        n \in {"rh_fetch_matches_by_time_range", "get_filtered_matches"}}

InitFetch ==
    /\ op \in FetchOps
    /\ match = "exists"
    /\ listing = NoListing
    /\ pc = "idle"
    /\ ep_idx = 1
    /\ all_files = <<>>
    /\ dl_idx = 1
    /\ downloaded_files = <<>>
    /\ ret_files = <<>>
    /\ ret_gate = "unset"
    /\ raised = "none"
    /\ net = <<>>
    /\ BatchIdle
    /\ LogsIdle
    /\ ft_idx = 1
    /\ ExtIdle
    /\ ClassifyIdle
    /\ TokenIdle
    /\ limit \in 1..MaxFetchLimit
    /\ region_id \in {"None", "eu"}
    /\ all_matches = <<>>
    /\ matches_processed = 0
    /\ cursor = "None"
    /\ filtered_matches = <<>>
    /\ fm_idx = 1
    /\ result = <<>>
    /\ m_pc = "call"
    /\ DfIdle
    /\ stuck = 0
    /\ log_session_id = "unset"
    /\ min_duration \in {<<>>, <<10>>}
    /\ max_duration \in {<<>>, <<10>>}
    /\ ret_matches = <<>>

\* the loop is left: the return statement
FetchReturn(all) ==
    /\ ret_matches' = Returned(all)
    /\ m_pc' = "returned"

\* the url, the parameters, the filters, and the head of the loop
FetchEnter ==
    /\ m_pc = "call"
    /\ IF LoopGoesOn(matches_processed)
       THEN m_pc' = "pages" /\ UNCHANGED ret_matches
       ELSE FetchReturn(all_matches)
    /\ UNCHANGED <<op, match, listing, pc, ep_idx, all_files, dl_idx, downloaded_files,
                   ret_files, ret_gate, raised, net, files, maxc, st, off, results, disk,
                   progressVars, logsVars, ft_idx, extVars, classifyVars, tokenVars,
                   limit, region_id, all_matches, matches_processed, cursor,
                   filtered_matches, fm_idx, result, dfVars, stuck, log_session_id,
                   min_duration, max_duration>>

\* one turn of the loop: the request; an exception is printed and ends the
\* loop; an empty page ends it; the page is filtered and counted; a page
\* without cursor ends it
FetchPage ==
    /\ m_pc = "pages"
    /\ \/ /\ net' = Append(net, Request("matches", "match", <<>>, 500))
          /\ FetchReturn(all_matches)
          /\ UNCHANGED <<all_matches, matches_processed, cursor>>
       \/ \E page \in FetchPages :
            /\ net' = Append(net, Request("matches", "match", <<>>, 200))
            /\ IF page.matches = <<>>
               THEN /\ FetchReturn(all_matches)
                    /\ UNCHANGED <<all_matches, matches_processed, cursor>>
               ELSE LET filtered == PageFilter(page.matches)
                        processed == matches_processed + Processed(page.matches, filtered)
                    IN /\ all_matches' = all_matches \o filtered
                       /\ matches_processed' = processed
                       /\ cursor' = page.cursor
                       /\ IF page.cursor = "None" \/ ~LoopGoesOn(processed)
                          THEN FetchReturn(all_matches \o filtered)
                          ELSE UNCHANGED <<ret_matches, m_pc>>
    /\ UNCHANGED <<op, match, listing, pc, ep_idx, all_files, dl_idx, downloaded_files,
                   ret_files, ret_gate, raised, files, maxc, st, off, results, disk,
                   progressVars, logsVars, ft_idx, extVars, classifyVars, tokenVars,
                   limit, region_id, filtered_matches, fm_idx, result, dfVars, stuck,
                   log_session_id, min_duration, max_duration>>

NextFetch ==
    \/ FetchEnter
    \/ FetchPage

\* the call runs: the thread that made it is scheduled and every request is
\* answered or fails
FairFetch == WF_vars(NextFetch)

SpecFetch == InitFetch /\ [][NextFetch]_vars /\ FairFetch

-----------------------------------------------------------------------------
(* Properties of download_match_files, checked under SpecBatch *)

\* the target paths of the tasks whose transfer succeeded, in input order
OkPaths ==
    Collect([i \in Tasks |-> IF st[i] = "ok" THEN <<OutputPath(i)>> ELSE <<>>], 1)

C2_NoPartialFile ==
    \A i \in Tasks :
        st[i] = "failed" =>
            ~(disk[OutputPath(i)].exists /\ disk[OutputPath(i)].by = i)

\* C3: concurrency bound: with max_concurrent_downloads = N >= 1, at most N
\* transfers are open at any time.
C3_ConcurrencyBound ==
    maxc >= 1 => Cardinality(InFlight) <= maxc

\* the pool is full while a file still waits
C3_Witness ==
    /\ maxc = 2
    /\ Cardinality(InFlight) = 2
    /\ \E i \in Tasks : st[i] = "queued" /\ files[i].name # <<>>

\* C4: sequential mode: with max_concurrent_downloads <= 1 (0 and negative
\* included) at most one transfer is open, file i+1 is not started before file i
\* has completed or failed, and the call returns, without raising, the
\* successful paths in the order of the input.
C4_SequentialMode ==
    maxc <= 1 =>
        /\ Cardinality(InFlight) <= 1
        /\ \A i \in Tasks :
              (i > 1 /\ st[i] # "queued") =>
                  st[i - 1] \notin {"queued", "started", "streaming"}
        /\ pc = "done" =>
              /\ raised = "none"
              /\ \A i \in Tasks : st[i] # "queued"
              /\ downloaded_files = OkPaths

\* a negative max_concurrent_downloads, three files, the first one failing
C4_Witness ==
    /\ maxc = -1
    /\ pc = "done"
    /\ Len(files) = 3
    /\ st = <<"failed", "ok", "ok">>
    /\ downloaded_files = <<OutputPath(2), OutputPath(3)>>

\* C14: target-path exclusivity under concurrency: in a pooled batch
\* (max_concurrent_downloads > 1) no two transfers that are open at the same
\* time have the same target path, for every descriptor list the listings can
\* produce, the same name under both endpoint tags included.
C14_PathExclusive ==
    maxc > 1 =>
        \A i, j \in InFlight : i # j => OutputPath(i) # OutputPath(j)

-----------------------------------------------------------------------------
(* Properties of the retrieval calls, checked under Spec *)

RetrievalOps == {"list_match_files", "list_all_match_files",
                 "download_match_file_by_type", "download_all_match_files"}

Requests(kind) == {k \in 1..Len(net) : net[k].kind = kind}

\* every gate lookup of the call was answered 200
AllGatesOk == \A k \in Requests("gate") : net[k].status = 200

\* the listing request of the endpoint was answered 200
ListedOk(ep) == \E k \in Requests("list") : net[k].ep = ep /\ net[k].status = 200

ListFailed(ep) == \E k \in Requests("list") : net[k].ep = ep /\ net[k].status # 200

\* an endpoint's listing as the caller is to see it
Tagged(ep) == [i \in 1..Len(listing[ep]) |-> [name |-> listing[ep][i], api_type |-> ep]]

\* C5: not-found ordering: when the gate lookup is answered 404, every
\* retrieval call raises MatchNotFoundException, and no listing or download
\* request has been issued.
C5_NotFoundOrdering ==
    (pc = "done" /\ op.name \in RetrievalOps /\ net[1].status = 404) =>
        /\ raised = "MatchNotFoundException"
        /\ Requests("list") = {}
        /\ Requests("download") = {}

\* C6: existence gate: check_match_exists returns True when the lookup
\* succeeds, False when it is answered 404, and lets any other error through.
C6_ExistenceGate ==
    (pc = "done" /\ op.name = "check_match_exists") =>
        /\ net[1].status = 200 => (ret_gate = "True" /\ raised = "none")
        /\ net[1].status = 404 => (ret_gate = "False" /\ raised = "none")
        /\ net[1].status = 500 => (ret_gate = "unset" /\ raised = "HTTPError")

\* C7: partial endpoint failure isolation: in list_all_match_files on an
\* existing match, a failing endpoint contributes nothing and raises nothing:
\* with one endpoint failing the result is the other one's descriptors, with
\* both failing it is empty.
C7_PartialEndpointFailure ==
    (pc = "done" /\ op.name = "list_all_match_files" /\ AllGatesOk
        /\ \E ep \in Endpoints : ListFailed(ep)) =>
        /\ raised = "none"
        /\ ret_files = (IF ListedOk(ENDPOINT_FILE) THEN Tagged(ENDPOINT_FILE) ELSE <<>>)
                       \o (IF ListedOk(ENDPOINT_DEVELOPER_FILE)
                           THEN Tagged(ENDPOINT_DEVELOPER_FILE) ELSE <<>>)

\* the developer-file listing fails and the file listing comes back, non-empty
C7_Witness ==
    /\ pc = "done"
    /\ op.name = "list_all_match_files"
    /\ ListFailed(ENDPOINT_DEVELOPER_FILE)
    /\ ListedOk(ENDPOINT_FILE)
    /\ listing[ENDPOINT_DEVELOPER_FILE] # <<>>
    /\ ret_files # <<>>
    /\ ret_files = Tagged(ENDPOINT_FILE)

\* C8: result shape of list_all_match_files: the file endpoint's listing in
\* its order, then the developer-file endpoint's in its order, each entry
\* tagged with the endpoint that returned it, nothing de-duplicated: the length
\* is the sum of the two listings' lengths.
C8_ListAllShape ==
    (pc = "done" /\ op.name = "list_all_match_files"
        /\ ListedOk(ENDPOINT_FILE) /\ ListedOk(ENDPOINT_DEVELOPER_FILE)) =>
        /\ raised = "none"
        /\ Len(ret_files) = Len(listing[ENDPOINT_FILE]) + Len(listing[ENDPOINT_DEVELOPER_FILE])
        /\ \A i \in 1..Len(ret_files) :
              LET n == Len(listing[ENDPOINT_FILE])
              IN IF i <= n
                 THEN ret_files[i] = [name |-> listing[ENDPOINT_FILE][i],
                                      api_type |-> ENDPOINT_FILE]
                 ELSE ret_files[i] = [name |-> listing[ENDPOINT_DEVELOPER_FILE][i - n],
                                      api_type |-> ENDPOINT_DEVELOPER_FILE]

\* the same name on both endpoints comes back twice, once under each tag
C8_Witness ==
    /\ pc = "done"
    /\ op.name = "list_all_match_files"
    /\ listing[ENDPOINT_FILE] = <<CL1>>
    /\ listing[ENDPOINT_DEVELOPER_FILE] = <<CH1, CL1>>
    /\ ret_files = << [name |-> CL1, api_type |-> ENDPOINT_FILE],
                      [name |-> CH1, api_type |-> ENDPOINT_DEVELOPER_FILE],
                      [name |-> CL1, api_type |-> ENDPOINT_DEVELOPER_FILE] >>

\* C9: once a gate lookup of download_match_file_by_type or
\* download_all_match_files has been answered 404, the call issues no further
\* request: the 404 is the last entry of its request log.
C9_NothingAfterNotFound ==
    op.name \in {"download_match_file_by_type", "download_all_match_files"} =>
        \A k \in Requests("gate") : net[k].status = 404 => k = Len(net)

\* the endpoints of the type whose listing came back
QueriedOk == {ep \in Endpoints :
                 (\E i \in 1..Len(GetEndpointsForFileType(op.file_type)) :
                     GetEndpointsForFileType(op.file_type)[i] = ep) /\ ListedOk(ep)}

HasType(name) == IdentifyFileType(name) = op.file_type

HasSession(name) == op.session_id = <<>> \/ Contains(name, op.session_id)

ByTypeDone ==
    pc = "done" /\ op.name = "download_match_file_by_type" /\ AllGatesOk

\* C10 as stated: on an existing match download_match_file_by_type raises
\* FileNotFoundException, and issues no download request, exactly when no
\* listed file of a queried endpoint is of the type and (a session being given)
\* contains the session id.
C10_FileNotFoundStrict ==
    ByTypeDone =>
        LET survivors == {<<ep, i>> \in Endpoints \X (1..MaxListed + 1) :
                             /\ ep \in QueriedOk
                             /\ i <= Len(listing[ep])
                             /\ HasType(listing[ep][i])
                             /\ HasSession(listing[ep][i])}
        IN /\ (survivors = {}) <=> (raised = "FileNotFoundException")
           /\ (survivors = {}) => Requests("download") = {}

\* C10, amended: on an existing match download_match_file_by_type raises
\* FileNotFoundException, and issues no download request, exactly when no
\* listed file of a queried endpoint is of the requested type; a session id
\* that no file of the type contains does not make it raise, the files of the
\* type are then downloaded.
C10_FileNotFoundByType ==
    ByTypeDone =>
        LET of_type == {<<ep, i>> \in Endpoints \X (1..MaxListed + 1) :
                           /\ ep \in QueriedOk
                           /\ i <= Len(listing[ep])
                           /\ HasType(listing[ep][i])}
        IN /\ (of_type = {}) <=> (raised = "FileNotFoundException")
           /\ (of_type = {}) => Requests("download") = {}
           /\ (of_type # {}) => Requests("download") # {}

\* the only combat log is of another session: it is downloaded, nothing raised
C10_Witness ==
    /\ ByTypeDone
    /\ op.file_type = COMBAT_LOG
    /\ op.session_id = <<"S1">>
    /\ listing[ENDPOINT_FILE] = <<CL2>>
    /\ listing[ENDPOINT_DEVELOPER_FILE] = <<>>
    /\ ListedOk(ENDPOINT_FILE)
    /\ raised = "none"
    /\ downloaded_files = <<CL2>>

\* the paths of the download requests that were answered 200, in request order
RECURSIVE PathsFetched(_, _)
PathsFetched(log, pattern) ==
    IF log = <<>> THEN <<>>
    ELSE (IF Head(log).kind = "download" /\ Head(log).status = 200
          THEN <<OutputFilename(pattern, Head(log).name)>> ELSE <<>>)
         \o PathsFetched(Tail(log), pattern)

\* C11: download_all_match_files never fails on a per-file basis and fails
\* only on gate/listing total failure: when at least one endpoint's listing came
\* back it raises nothing, whatever transfers fail, and returns exactly the
\* paths of the transfers that succeeded; when the gate reports the match
\* missing or no listing came back it ends with an exception, not with a list.
C11_DownloadAllFailures ==
    (pc = "done" /\ op.name = "download_all_match_files") =>
        IF \E ep \in Endpoints : ListedOk(ep)
        THEN /\ raised = "none"
             /\ downloaded_files = PathsFetched(net, op.pattern)
        ELSE raised # "none"

-----------------------------------------------------------------------------
(* Properties of download_match_logs, checked under SpecLogs *)

\* the endpoints download_match_file_by_type goes through for a type
EndpointsOf(file_type) ==
    {GetEndpointsForFileType(file_type)[i] :
        i \in 1..Len(GetEndpointsForFileType(file_type))}

\* a file of a requested type is listed on an endpoint searched for that type
RequestedTypeExists ==
    \E k \in 1..Len(file_types) :
        \E ep \in EndpointsOf(file_types[k]) :
            \E i \in 1..Len(listing[ep]) :
                IdentifyFileType(listing[ep][i]) = file_types[k]

\* C12: fallback trigger: the list-all-and-download-everything step of
\* download_match_logs is taken only when no file is selected by the requested
\* types and fallback_all is True: never with fallback_all False, and never
\* when a file of a requested type exists for the match.
C12_FallbackTrigger ==
    logs_pc = "fallback" => (fallback_all /\ ~RequestedTypeExists)

\* a file of some requested type is listed on some endpoint
AnyRequestedType ==
    \E k \in 1..Len(file_types) : \E ep \in Endpoints :
        \E i \in 1..Len(listing[ep]) :
            IdentifyFileType(listing[ep][i]) = file_types[k]

AllListsOk == \A k \in Requests("list") : net[k].status = 200

\* the download requests of the call, in order, as descriptors
RECURSIVE Attempted(_)
Attempted(log) ==
    IF log = <<>> THEN <<>>
    ELSE (IF Head(log).kind = "download"
          THEN << [name |-> Head(log).name, api_type |-> Head(log).ep] >> ELSE <<>>)
         \o Attempted(Tail(log))

\* C13: fallback result: download_match_logs called with fallback_all = True
\* on an existing match that has no file of any requested type (its lookups and
\* listings being answered) attempts every named file of the file listing and
\* then of the developer-file listing, whatever its type, and returns the paths
\* of those whose download succeeded; the result is non-empty as soon as one
\* download succeeds.
C13_FallbackResult ==
    (logs_pc = "returned" /\ fallback_all /\ match = "exists"
        /\ ~AnyRequestedType /\ AllGatesOk /\ AllListsOk) =>
        /\ Attempted(net) = Named(Tagged(ENDPOINT_FILE) \o Tagged(ENDPOINT_DEVELOPER_FILE))
        /\ all_downloaded = PathsFetched(net, LogsPattern)
        /\ (\E k \in Requests("download") : net[k].status = 200) => all_downloaded # <<>>

\* SERVER_METADATA is asked for, the match has a combat log and a chat log:
\* both are downloaded
C13_Witness ==
    /\ logs_pc = "returned"
    /\ fallback_all
    /\ file_types = <<SERVER_METADATA>>
    /\ listing[ENDPOINT_FILE] = <<CL1>>
    /\ listing[ENDPOINT_DEVELOPER_FILE] = <<CH1>>
    /\ AllGatesOk
    /\ AllListsOk
    /\ all_downloaded = << <<"M1_">> \o CL1, <<"M1_">> \o CH1 >>

-----------------------------------------------------------------------------
(* Properties of the by-type retrievals, checked under SpecByType *)

ExtCall == op.name = "S2_get_match_files_by_type"

\* the formal file type a friendly category stands for
CategoryType(ft) ==
    CASE ft = "ChatLog" -> CHAT_LOG
      [] ft = "CombatLog" -> COMBAT_LOG
      [] OTHER -> "None"

\* a download request for the file was issued on the endpoint
WasAttempted(ep, name) ==
    \E k \in Requests("download") : net[k].ep = ep /\ net[k].name = name

\* the download of the file from the endpoint succeeded
WasFetched(ep, name) ==
    \E k \in Requests("download") :
        net[k].ep = ep /\ net[k].name = name /\ net[k].status = 200

\* the call asks for this file when it looks on this endpoint: the type (or a
\* category's prefix) fits, on an endpoint get_endpoints_for_file_type names
Wanted(ep, name) ==
    /\ name # <<>>
    /\ HasSession(name)
    /\ IF ExtCall
       THEN \E k \in 1..Len(file_types_list) :
               /\ StartsWith(name, Friendly(file_types_list[k]).prefix)
               /\ ep \in EndpointsOf(CategoryType(file_types_list[k]))
       ELSE HasType(name) /\ ep \in EndpointsOf(op.file_type)

\* C15: type-to-download resolution searches all endpoints: with the lookups
\* answered, download_match_file_by_type and S2_get_match_files_by_type
\* download the files of the requested type found on every endpoint of
\* get_endpoints_for_file_type(type) whose listing did not fail (developer-file
\* for CHAT_LOG, both for any other type): a file that is only on the second
\* endpoint is downloaded, also when the first endpoint's listing fails.
C15_SearchesAllEndpoints ==
    (pc = "done" /\ AllGatesOk) =>
        \A ep \in Endpoints : \A i \in 1..Len(listing[ep]) :
            (Wanted(ep, listing[ep][i]) /\ ~ListFailed(ep)) =>
                WasAttempted(ep, listing[ep][i])

\* the request is for a file of the requested type, or of a requested category
\* on that category's endpoint
OfRequestedType(r) ==
    IF ExtCall
    THEN \E k \in 1..Len(file_types_list) :
            /\ StartsWith(r.name, Friendly(file_types_list[k]).prefix)
            /\ r.ep = Friendly(file_types_list[k]).api_type
    ELSE HasType(r.name)

\* the names listed on the endpoint that are of the same type or category as
\* the name
SameKind(ep, name) ==
    {n \in {listing[ep][i] : i \in 1..Len(listing[ep])} :
        IF ExtCall
        THEN n # <<>> /\ Lower(n[1]) = Lower(name[1])
        ELSE IdentifyFileType(n) = IdentifyFileType(name)}

\* C16 as stated: type and session filters combine as logical AND: called with
\* a session_id, the two retrievals download only files that are of the
\* requested type and have the session_id in their name.
C16_FiltersAnd ==
    op.session_id # <<>> =>
        \A k \in Requests("download") :
            OfRequestedType(net[k]) /\ Contains(net[k].name, op.session_id)

\* C16, amended: called with a session_id, the two retrievals download only
\* files of the requested type; a downloaded file has the session_id in its
\* name whenever some file of its type listed on its endpoint has; when none
\* has, the session_id is ignored and every file of the type on that endpoint
\* is downloaded.
C16_FiltersSoft ==
    op.session_id # <<>> =>
        /\ \A k \in Requests("download") :
              /\ OfRequestedType(net[k])
              /\ (\E n \in SameKind(net[k].ep, net[k].name) : Contains(n, op.session_id))
                    => Contains(net[k].name, op.session_id)
        /\ (pc = "done" /\ AllGatesOk) =>
              \A ep \in Endpoints : \A i \in 1..Len(listing[ep]) :
                  LET name == listing[ep][i]
                  IN (/\ ListedOk(ep)
                      /\ OfRequestedType([name |-> name, ep |-> ep])
                      /\ \A n \in SameKind(ep, name) : ~Contains(n, op.session_id))
                        => WasAttempted(ep, name)

\* S2_get_match_files_by_type is asked for the combat logs of session S1, the
\* match has the combat logs of S1 and of S2: only the first is downloaded
C16_Witness ==
    /\ pc = "done"
    /\ ExtCall
    /\ op.session_id = <<"S1">>
    /\ file_types_list = <<"CombatLog">>
    /\ listing[ENDPOINT_FILE] = <<CL2, CL1>>
    /\ Attempted(net) = << [name |-> CL1, api_type |-> ENDPOINT_FILE] >>

\* the categories the docstring of S2_get_match_files_by_type lists
Categories ==
    {"ChatLog", "CombatLog", "Diagnostics", "ServerLog", "PEX_Summary", "PEX_Timeline"}

UnknownCategoryGiven ==
    IF op.file_types.kind = "str"
    THEN op.file_types.str \notin Categories \cup {"All"}
    ELSE \E k \in 1..Len(op.file_types.list) : op.file_types.list[k] \notin Categories

\* C17: friendly-category validation: S2_get_match_files_by_type raises
\* ValueError whenever file_types is a string other than "All" that is no known
\* category, or a list with an unknown category in it, and only then; no
\* lookup, listing or download request is issued for such a call and nothing
\* is put in the result.
C17_CategoryValidation ==
    ExtCall =>
        /\ UnknownCategoryGiven =>
              /\ pc = "done" => raised = "ValueError"
              /\ net = <<>>
              /\ DOMAIN ext_downloaded_files = {}
        /\ raised \in {"none", "ValueError"}
        /\ raised = "ValueError" => UnknownCategoryGiven

\* a list whose second entry is unknown: ValueError, nothing requested
C17_Witness ==
    /\ pc = "done"
    /\ ExtCall
    /\ op.file_types = ListArg(<<"ChatLog", "Bogus">>)
    /\ match = "exists"
    /\ listing[ENDPOINT_DEVELOPER_FILE] = <<CH1>>
    /\ raised = "ValueError"
    /\ net = <<>>

\* the named files of a requested category on that category's endpoint, the
\* listing of which came back
CategoryListed(ft) ==
    IF ListedOk(Friendly(ft).api_type)
    THEN SelectSeq(Named(Tagged(Friendly(ft).api_type)),
                   LAMBDA f : StartsWith(f.name, Friendly(ft).prefix))
    ELSE <<>>

Members(q) == {q[i] : i \in 1..Len(q)}

\* the files of the requested categories, each category narrowed to the session
SelectedStrict ==
    UNION {Members(IF op.session_id # <<>>
                   THEN OfSession(CategoryListed(file_types_list[k]), op.session_id)
                   ELSE CategoryListed(file_types_list[k])) :
           k \in 1..Len(file_types_list)}

\* the files of the requested categories, a category being narrowed to the
\* session when it has several files, one of them of the session
SelectedSoft ==
    UNION {LET c == CategoryListed(file_types_list[k])
               narrowed == OfSession(c, op.session_id)
           IN Members(IF op.session_id # <<>> /\ Len(c) > 1 /\ narrowed # <<>>
                      THEN narrowed ELSE c) :
           k \in 1..Len(file_types_list)}

\* the map returned has a key for each file of the set that was fetched, its
\* value is the path in output_dir, and nothing outside the set was requested
ResultIs(selected) ==
    /\ DOMAIN ext_downloaded_files =
           {f.name : f \in {g \in selected : WasFetched(g.api_type, g.name)}}
    /\ \A n \in DOMAIN ext_downloaded_files : ext_downloaded_files[n] = ExtOutputPath(n)
    /\ \A k \in Requests("download") :
           [name |-> net[k].name, api_type |-> net[k].ep] \in selected
    /\ \A f \in selected : WasAttempted(f.api_type, f.name)

\* C18 as stated: S2_get_match_files_by_type returns a map whose keys are
\* exactly the listed files that match a requested category's prefix on that
\* category's endpoint, narrowed to the session when one is given, and whose
\* download succeeded, each value being output_dir joined with the name;
\* nothing else is downloaded.
C18_FriendlyResultStrict ==
    (pc = "done" /\ ExtCall /\ raised = "none") => ResultIs(SelectedStrict)

\* C18, amended: the same, a category being narrowed to the session only when
\* it has more than one file and at least one of them has the session_id in
\* its name; otherwise all files of the category are downloaded.
C18_FriendlyResult ==
    (pc = "done" /\ ExtCall /\ raised = "none") => ResultIs(SelectedSoft)

\* the chat log of S1 is asked for: it alone is downloaded, the combat log and
\* the diagnostics are not
C18_Witness ==
    /\ pc = "done"
    /\ ExtCall
    /\ op.session_id = <<"S1">>
    /\ file_types_list = <<"ChatLog">>
    /\ listing[ENDPOINT_FILE] = <<CL1>>
    /\ listing[ENDPOINT_DEVELOPER_FILE] = <<CH1, DG1>>
    /\ DOMAIN ext_downloaded_files = {CH1}
    /\ ext_downloaded_files[CH1] = ExtOutputPath(CH1)
    /\ Requests("download") = {Len(net)}

-----------------------------------------------------------------------------
(* Properties of the progress callback, checked under SpecProgress *)

NonDecreasing(calls) ==
    \A a, b \in 1..Len(calls) : a <= b => calls[a].bytes_so_far <= calls[b].bytes_so_far

\* C19: progress completion signal: for every file _download_file downloads
\* with a progress callback, bytes_so_far never decreases from one call to the
\* next, and the last call has bytes_so_far equal to total_bytes and to the
\* number of bytes written; it is the last: the calls for the file are the
\* reports of its chunks, if any, and this one.
C19_CompletionSignal ==
    progress_callback =>
        \A i \in Tasks :
            /\ NonDecreasing(progress[i])
            /\ st[i] = "ok" =>
                  LET calls == progress[i]
                      last == calls[Len(calls)]
                  IN /\ calls # <<>>
                     /\ last.bytes_so_far = last.total_bytes
                     /\ last.bytes_so_far = off[i]
                     /\ off[i] = BodyLen(files[i])
                     /\ Len(calls) \in {1, off[i] + 1}

\* a body of two chunks under a content-length of three: two chunk reports
\* against the header, then the final one with the bytes written as the total
C19_Witness ==
    /\ progress_callback
    /\ \E i \in Tasks :
         /\ st[i] = "ok"
         /\ total_size[i] = 3
         /\ progress[i] = <<Report(1, 3), Report(2, 3), Report(2, 2)>>

\* C20 as stated: with a progress callback, _download_file invokes it after
\* every chunk written, when the server reports a content-length and when it
\* does not.
C20_EveryChunkReported ==
    progress_callback =>
        \A i \in Tasks : st[i] = "streaming" => Len(progress[i]) = off[i]

\* C20, amended: with a progress callback, _download_file invokes it after
\* every chunk written when the server reports a content-length above zero,
\* with the bytes so far and that content-length; when the content-length is
\* absent it is not invoked per chunk, and is invoked once, after the last
\* chunk, with bytes_so_far = total_bytes = the bytes written.
C20_ChunkReports ==
    progress_callback =>
        \A i \in Tasks :
            /\ st[i] = "streaming" =>
                  IF total_size[i] > 0
                  THEN progress[i] = [k \in 1..off[i] |-> Report(k, total_size[i])]
                  ELSE progress[i] = <<>>
            /\ (st[i] = "ok" /\ total_size[i] = 0) =>
                  progress[i] = <<Report(off[i], off[i])>>

\* a body of two chunks without content-length: one call, the final one
C20_Witness ==
    /\ progress_callback
    /\ \E i \in Tasks :
         /\ st[i] = "ok"
         /\ total_size[i] = 0
         /\ off[i] = 2
         /\ progress[i] = <<Report(2, 2)>>

-----------------------------------------------------------------------------
(* Properties of identify_file_type, checked under SpecClassify *)

\* the patterns of the table, as written, that match the filename
Hits == {i \in 1..Len(FILE_TYPE_PATTERNS) : PatternMatches(FILE_TYPE_PATTERNS[i], cls_name)}

\* C21: at most one of the six typed patterns matches a filename; the type
\* returned is the type of that pattern whatever the order the table is walked
\* in, and a name no pattern matches, or an empty name, has no type.
C21_Exclusive ==
    /\ Cardinality(Hits) <= 1
    /\ cls_pc = "done" =>
         /\ \A i \in Hits : cls_type = FILE_TYPE_PATTERNS[i].type
         /\ Hits = {} => cls_type = "None"
         /\ cls_name = <<>> => cls_type = "None"

\* a name that starts with one prefix and holds another one is classified by
\* a table that is walked from the other pattern on
C21_Witness ==
    /\ cls_pc = "done"
    /\ cls_name = <<"ChatLog_", "CombatLog_", ".LOG">>
    /\ cls_table[1].type = COMBAT_LOG
    /\ cls_type = CHAT_LOG

-----------------------------------------------------------------------------
(* Properties of the access token, checked under SpecFiltered *)

\* the token the i-th request of the call carries: the token of the call that
\* issued it
Bearer(i) ==
    LET k == CHOOSE j \in 1..Len(frames) :
                 /\ frames[j].from <= i
                 /\ \A h \in 1..Len(frames) : frames[h].from <= i => h <= j
    IN frames[k].token

\* C22: during one top-level call the token provider is invoked at most once
\* and every request of the call carries the same token.
C22_TokenOnce ==
    /\ provider_calls <= 1
    /\ \A i, j \in 1..Len(net) : Bearer(i) = Bearer(j)

-----------------------------------------------------------------------------
(* Properties of _download_file, checked under SpecDownloadFile *)

\* C23: whatever fails inside _download_file (the directory, the answer of
\* the request, the stream, the write), the call ends with DownloadError and
\* with no other exception, and the message of that DownloadError holds the
\* target path and the message of the original error.
C23_ErrorTyping ==
    /\ df_pc = "raised" =>
         LET r == df_returns[Len(df_returns)]
         IN /\ r.kind = "raise"
            /\ r.exc.type = "DownloadError"
            /\ Contains(r.exc.msg, df_path)
            /\ df_error # NoError
            /\ Contains(r.exc.msg, df_error.msg)
    /\ \A k \in 1..Len(df_returns) :
         df_returns[k].kind = "raise" => df_returns[k].exc.type = "DownloadError"

\* a write that failed in the middle of the body has ended the call with
\* DownloadError
C23_Witness ==
    /\ df_pc = "raised"
    /\ df_error.type = "OSError"
    /\ df_off = 1
    /\ df_returns[Len(df_returns)].exc.type = "DownloadError"

\* C26: when the same url is downloaded again into the same output_path and
\* the backend streams the same bytes, the path holds one file whose content
\* is exactly those bytes (the second call overwrites, it neither appends nor
\* writes elsewhere), and both calls return the same path.
C26_Idempotent ==
    df_pc = "returned" =>
        /\ disk[df_path].exists
        /\ disk[df_path].data = df_body
        /\ \A p \in DOMAIN disk : disk[p].exists => p = df_path
        /\ \A k \in 1..Len(df_returns) :
             df_returns[k].kind = "return" => df_returns[k].path = df_path

\* the second of two calls that both streamed a body of two chunks has returned
C26_Witness ==
    /\ df_pc = "returned"
    /\ df_call = 2
    /\ Len(df_body) = 2
    /\ Len(df_returns) = 2
    /\ df_returns[1].kind = "return"
    /\ df_returns[2].kind = "return"
    /\ disk[df_path].by = 2

-----------------------------------------------------------------------------
(* Liveness of the pool of download_match_files, checked under SpecStuck *)

\* C24: with max_concurrent_downloads >= 2, when the transfer of one file
\* never completes, every other file of the batch is eventually started and
\* eventually completes, fails or is passed over: the hanging transfer holds
\* one worker and the others go on with the rest of the queue.
C24_OthersComplete ==
    \A j \in 1..MaxStuckBatch :
        <>(j \in Tasks /\ j # stuck => st[j] \notin {"queued", "started", "streaming"})

\* the first transfer hangs in the middle of its body while a file submitted
\* after it has been downloaded
C24_Witness ==
    /\ maxc >= 2
    /\ stuck = 1
    /\ st[1] = "streaming"
    /\ Len(files) >= 3
    /\ st[2] = "ok"
    /\ st[3] \in {"ok", "raised", "failed"}

-----------------------------------------------------------------------------
(* Properties of filter_match_files_by_session, checked under SpecSession *)

\* sub occurs in name: name is some run of tokens, then sub, then the rest
HasInfix(name, sub) ==
    \E a \in 0..Len(name) :
        /\ a + Len(sub) <= Len(name)
        /\ \A k \in 1..Len(sub) : name[a + k] = sub[k]

\* the descriptors of fs, in order, whose name holds sub
RECURSIVE KeepInfix(_, _)
KeepInfix(fs, sub) ==
    IF fs = <<>> THEN <<>>
    ELSE (IF HasInfix(Head(fs).name, sub) THEN <<Head(fs)>> ELSE <<>>)
             \o KeepInfix(Tail(fs), sub)

\* C25: filter_match_files_by_session returns exactly the descriptors listed
\* on the endpoint, in listing order, whose name contains session_id as a
\* substring, and never one whose name lacks it.
C25_SessionSubstring ==
    (op.name = "filter_match_files_by_session" /\ pc = "done" /\ raised = "none") =>
        /\ ret_files = KeepInfix(TagFiles(listing[ENDPOINT_FILE], ENDPOINT_FILE), op.session_id)
        /\ \A k \in 1..Len(ret_files) : HasInfix(ret_files[k].name, op.session_id)

\* an id that stands in the middle of a name selects it and leaves out the
\* names without it
C25_Witness ==
    /\ op.name = "filter_match_files_by_session"
    /\ pc = "done"
    /\ raised = "none"
    /\ op.session_id = <<"123">>
    /\ Len(listing[ENDPOINT_FILE]) = 3
    /\ Len(ret_files) = 1
    /\ ret_files[1].name = <<"ChatLog_", "ABC", "123", ".log">>

-----------------------------------------------------------------------------
(* The requests of list_all_match_files, checked under Spec *)

\* the places of the requests of one kind in net
Places(kind) == {i \in 1..Len(net) : net[i].kind = kind}

\* C27: list_all_match_files looks the match up exactly once, before the
\* first listing request, and then queries both endpoints, "file" first,
\* whether or not the first query failed.
C27_GateOnceThenBoth ==
    op.name = "list_all_match_files" =>
        /\ Cardinality(Places("gate")) <= 1
        /\ \A i \in Places("list") : 1 \in Places("gate") /\ i > 1
        /\ pc = "done" =>
             /\ Places("gate") = {1}
             /\ net[1].status = 200 =>
                  /\ Len(net) = 3
                  /\ net[2].kind = "list" /\ net[2].ep = ENDPOINT_FILE
                  /\ net[3].kind = "list" /\ net[3].ep = ENDPOINT_DEVELOPER_FILE
             /\ net[1].status # 200 => Len(net) = 1

\* the query of "file" failed and "developer-file" was queried all the same
C27_Witness ==
    /\ op.name = "list_all_match_files"
    /\ pc = "done"
    /\ Len(net) = 3
    /\ net[2].status = 500
    /\ net[3].status = 200
    /\ net[3].ep = ENDPOINT_DEVELOPER_FILE
    /\ Len(ret_files) >= 1

-----------------------------------------------------------------------------
(* Properties of download_combat_log / download_chat_log, checked under SpecLogFile *)

\* C28: when the listing metadata of the selected log has no sessionId, the
\* session id is taken from the filename and the call goes on to the download
\* or ends with DownloadError; it ends with no other error.
C28_SessionFallback ==
    (op.name \in {"download_combat_log", "download_chat_log"}
        /\ log_session_id = "None" /\ pc = "done")
        => raised \in {"none", "DownloadError"}

-----------------------------------------------------------------------------
(* The list returned by the pool of download_match_files, checked under SpecBatch *)

\* downloaded_files of the for loop after the files 1..i, each with the outcome
\* its transfer had
RECURSIVE SequentialList(_)
SequentialList(i) ==
    IF i = 0 THEN <<>>
    ELSE SequentialList(i - 1) \o (IF st[i] = "ok" THEN <<OutputPath(i)>> ELSE <<>>)

\* C29: with max_concurrent_downloads > 1 the call returns the target paths
\* of the transfers that succeeded in input order, whatever order the workers
\* finished in: the list the for loop returns for the same outcomes.
C29_PoolEqualsSequential ==
    (pc = "done" /\ maxc > 1 /\ raised = "none") =>
        /\ downloaded_files = SequentialList(Len(files))
        /\ \A a, b \in 1..Len(downloaded_files) :
             a < b => \E i, j \in Tasks :
                        /\ i < j
                        /\ downloaded_files[a] = OutputPath(i)
                        /\ downloaded_files[b] = OutputPath(j)

\* the pool has returned the paths of the second and third file, the first
\* one having failed after the others were written
C29_Witness ==
    /\ pc = "done"
    /\ maxc = 2
    /\ Len(files) = 3
    /\ st = <<"failed", "ok", "ok">>
    /\ off[1] >= 1
    /\ downloaded_files = <<OutputPath(2), OutputPath(3)>>
    /\ OutputPath(2) # OutputPath(3)

-----------------------------------------------------------------------------
(* Properties of the paginated match fetches, checked under SpecFetch *)

\* the match meets the criteria that were supplied
MeetsCriteria(m) ==
    /\ min_duration # <<>> => DurationOf(m) >= min_duration[1]
    /\ max_duration # <<>> => DurationOf(m) <= max_duration[1]
    /\ region_id # "None" => \E k \in DOMAIN m.instances : m.instances[k] = region_id

\* what holds at every point of a fetch with limit > 0
FetchBounded ==
    limit > 0 =>
        /\ Len(net) <= limit
        /\ matches_processed >= Len(net) - 1
        /\ raised = "none"
        /\ m_pc = "returned" =>
             /\ Len(ret_matches) <= limit
             /\ \A k \in 1..Len(ret_matches) : MeetsCriteria(ret_matches[k])
             /\ \A k \in 1..Len(ret_matches) : ret_matches[k] = all_matches[k]
             /\ Len(ret_matches) < limit => ret_matches = all_matches

\* C30: for limit > 0 the fetch makes at most limit requests, each turn of
\* its loop leaving it or counting at least one more match, and it returns:
\* at most limit matches, each of which meets every criterion supplied; a
\* failed request ends the loop and the matches collected so far are returned,
\* nothing is raised.
C30_PaginationBounded == [](FetchBounded) /\ <>(m_pc = "returned")

\* the second request failed after a first page of one match, which passed
\* the filters, and that match is returned
C30_Witness ==
    /\ m_pc = "returned"
    /\ limit = 2
    /\ Len(net) = 2
    /\ net[2].status = 500
    /\ Len(ret_matches) = 1
    /\ matches_processed = 1
    /\ raised = "none"

====
